---- MODULE Spec2Model ----
(***************************************************************************)
(* A model of the a4 chess engine: the bitboard Position with make_move,   *)
(* the gambit Position with make_move / unmake_move, the pseudo-legal move *)
(* generator, the transposition table, the iterative-deepening search      *)
(* driver and the main/worker thread pool.                                 *)
(***************************************************************************)
EXTENDS Integers, Sequences, FiniteSets, TLC

VARIABLES
    debug_assertions, \* build profile: overflow checks panic (TRUE) or wrap (FALSE)
    pos,              \* a Position (src/src/position.rs)
    pos2,             \* a second Position, moved independently from the same start
    moves,            \* the Vec<Move> filled by the last generate_moves call
    gen_side,         \* the side the last generate_moves call was made for
    last_op,          \* the last operation applied to pos
    nops              \* number of operations applied so far

\* ------------------------------------------------------------------
\* core/types.rs
\* ------------------------------------------------------------------
White == 0
Black == 1
Colors == {White, Black}
toggle(c) == 1 - c

Pawn == 0
Knight == 1
Bishop == 2
Rook == 3
Queen == 4
King == 5
PieceKinds == Pawn..King

Squares == 0..63
NoSquare == -1
A1 == 0
B1 == 1
C1 == 2
D1 == 3
E1 == 4
F1 == 5
G1 == 6
H1 == 7
A8 == 56
E8 == 60
H8 == 63

rank(sq) == sq \div 8
file(sq) == sq % 8
Square_of(r, f) == r * 8 + f

as_vector(dir) ==
    CASE dir = "North" -> 8
      [] dir = "NorthEast" -> 9
      [] dir = "East" -> 1
      [] dir = "SouthEast" -> -7
      [] dir = "South" -> -8
      [] dir = "SouthWest" -> -9
      [] dir = "West" -> -1
      [] dir = "NorthWest" -> 7

reverse(dir) ==
    CASE dir = "North" -> "South"
      [] dir = "NorthEast" -> "SouthWest"
      [] dir = "East" -> "West"
      [] dir = "SouthEast" -> "NorthWest"
      [] dir = "South" -> "North"
      [] dir = "SouthWest" -> "NorthEast"
      [] dir = "West" -> "East"
      [] dir = "NorthWest" -> "SouthEast"

\* Square((self.0 as i32 + offset) as u8): no bounds check, the sum wraps to a u8.
plus(sq, offset) == (sq + offset + 256) % 256
towards(sq, dir) == plus(sq, as_vector(dir))

WHITE_KINGSIDE == 1
WHITE_QUEENSIDE == 2
BLACK_KINGSIDE == 4
BLACK_QUEENSIDE == 8
CastleFlags == {WHITE_KINGSIDE, WHITE_QUEENSIDE, BLACK_KINGSIDE, BLACK_QUEENSIDE}

\* ------------------------------------------------------------------
\* core/squareset.rs: a SquareSet is the set of the indices of its 1 bits
\* ------------------------------------------------------------------
SS_RANK(r) == {s \in Squares : rank(s) = r}
SS_FILE(f) == {s \in Squares : file(s) = f}

\* 1u64 << square.0 overflows for square.0 >= 64: a panic with overflow checks,
\* a shift by square.0 % 64 without them.
shl_overflows(sq) == debug_assertions /\ sq >= 64
bit(sq) == sq % 64
contains(set, sq) == bit(sq) \in set
insert(set, sq) == set \cup {bit(sq)}
remove(set, sq) == set \ {bit(sq)}

xor(a, b) == (a \ b) \cup (b \ a)

shift(set, dir) ==
    LET src == CASE dir \in {"NorthEast", "East", "SouthEast"} -> set \ SS_FILE(7)
                 [] dir \in {"SouthWest", "West", "NorthWest"} -> set \ SS_FILE(0)
                 [] OTHER -> set
    IN {s + as_vector(dir) : s \in src} \cap Squares

\* ------------------------------------------------------------------
\* core/attacks.rs
\* ------------------------------------------------------------------
KingTable_new(sq) ==
    (IF rank(sq) # 7
        THEN {sq + 8} \cup (IF file(sq) # 0 THEN {sq + 7} ELSE {})
                      \cup (IF file(sq) # 7 THEN {sq + 9} ELSE {})
        ELSE {})
    \cup (IF rank(sq) # 0
        THEN {sq - 8} \cup (IF file(sq) # 0 THEN {sq - 9} ELSE {})
                      \cup (IF file(sq) # 7 THEN {sq - 7} ELSE {})
        ELSE {})
    \cup (IF file(sq) # 0 THEN {sq - 1} ELSE {})
    \cup (IF file(sq) # 7 THEN {sq + 1} ELSE {})

PawnTable_new(sq, color) ==
    LET promo_rank == IF color = White THEN 7 ELSE 0
        up_left == IF color = White THEN 7 ELSE -9
        up_right == IF color = White THEN 9 ELSE -7
    IN IF rank(sq) = promo_rank THEN {}
       ELSE (IF file(sq) # 0 THEN {sq + up_left} ELSE {})
            \cup (IF file(sq) # 7 THEN {sq + up_right} ELSE {})

KnightTable_new(sq) ==
    LET f == file(sq)
        r == rank(sq)
    IN (IF f # 0 /\ r \notin {6, 7} THEN {sq + 15} ELSE {})
       \cup (IF f # 7 /\ r \notin {6, 7} THEN {sq + 17} ELSE {})
       \cup (IF f \notin {6, 7} /\ r # 7 THEN {sq + 10} ELSE {})
       \cup (IF f \notin {6, 7} /\ r # 0 THEN {sq - 6} ELSE {})
       \cup (IF f # 7 /\ r \notin {0, 1} THEN {sq - 15} ELSE {})
       \cup (IF f # 0 /\ r \notin {0, 1} THEN {sq - 17} ELSE {})
       \cup (IF f \notin {0, 1} /\ r # 0 THEN {sq - 10} ELSE {})
       \cup (IF f \notin {0, 1} /\ r # 7 THEN {sq + 6} ELSE {})

ray_edge(dir) ==
    CASE dir = "North" -> SS_RANK(7)
      [] dir = "NorthEast" -> SS_RANK(7) \cup SS_FILE(7)
      [] dir = "East" -> SS_FILE(7)
      [] dir = "SouthEast" -> SS_RANK(0) \cup SS_FILE(7)
      [] dir = "South" -> SS_RANK(0)
      [] dir = "SouthWest" -> SS_RANK(0) \cup SS_FILE(0)
      [] dir = "West" -> SS_FILE(0)
      [] dir = "NorthWest" -> SS_RANK(7) \cup SS_FILE(0)

\* RayTable: entry 64 is the empty set; the ray from sq runs to the edge of the board.
RayTable_attacks(sq, dir) ==
    IF sq = 64 \/ sq \in ray_edge(dir) THEN {}
    ELSE LET v == as_vector(dir)
             \* the cursor stops on the first square of the edge set
             on_ray(k) == \A j \in 1..(k - 1) : (sq + j * v) \notin ray_edge(dir)
         IN {sq + k * v : k \in {k \in 1..7 : (sq + k * v) \in Squares /\ on_ray(k)}}

Min(S) == CHOOSE x \in S : \A y \in S : x <= y
Max(S) == CHOOSE x \in S : \A y \in S : x >= y

positive_ray_attacks(sq, occupancy, dir) ==
    LET attacks_ == RayTable_attacks(sq, dir)
        blocker == attacks_ \cap occupancy
        blocking_square == IF blocker = {} THEN 64 ELSE Min(blocker)
    IN xor(attacks_, RayTable_attacks(blocking_square, dir))

negative_ray_attacks(sq, occupancy, dir) ==
    LET attacks_ == RayTable_attacks(sq, dir)
        blocker == attacks_ \cap occupancy
        blocking_square == IF blocker = {} THEN 64 ELSE Max(blocker)
    IN xor(attacks_, RayTable_attacks(blocking_square, dir))

pawn_attacks(sq, color) == PawnTable_new(sq, color)
knight_attacks(sq) == KnightTable_new(sq)
king_attacks(sq) == KingTable_new(sq)

bishop_attacks(sq, occupancy) ==
    positive_ray_attacks(sq, occupancy, "NorthWest")
    \cup negative_ray_attacks(sq, occupancy, "SouthEast")
    \cup positive_ray_attacks(sq, occupancy, "NorthEast")
    \cup negative_ray_attacks(sq, occupancy, "SouthWest")

rook_attacks(sq, occupancy) ==
    positive_ray_attacks(sq, occupancy, "North")
    \cup negative_ray_attacks(sq, occupancy, "South")
    \cup positive_ray_attacks(sq, occupancy, "East")
    \cup negative_ray_attacks(sq, occupancy, "West")

queen_attacks(sq, occupancy) == bishop_attacks(sq, occupancy) \cup rook_attacks(sq, occupancy)

attacks(kind, color, sq, occupancy) ==
    CASE kind = Pawn -> pawn_attacks(sq, color)
      [] kind = Knight -> knight_attacks(sq)
      [] kind = Bishop -> bishop_attacks(sq, occupancy)
      [] kind = Rook -> rook_attacks(sq, occupancy)
      [] kind = Queen -> queen_attacks(sq, occupancy)
      [] kind = King -> king_attacks(sq)

\* ------------------------------------------------------------------
\* zobrist.rs: the 781 magic numbers are distinct nonzero outputs of a xorshift
\* generator; a hash is modelled as the set of the indices of the magic numbers
\* XORed into it, so that ^= is the symmetric difference.
\* ------------------------------------------------------------------
SIDE_TO_MOVE_INDEX == 768
CASTLING_RIGHTS_INDEX == 769
EN_PASSANT_INDEX == 773
MAGIC_HASHES_LEN == 781

square_hash(kind, color, square) == 12 * square + (IF color = White THEN 0 ELSE 6) + kind
en_passant_hash(square) == file(square) + EN_PASSANT_INDEX
castle_hash(offset) == offset + CASTLING_RIGHTS_INDEX

modify_piece(hash, square, piece) == xor(hash, {square_hash(piece.kind, piece.color, square)})
modify_side_to_move(hash) == xor(hash, {SIDE_TO_MOVE_INDEX})
modify_kingside_castle(hash, color) == xor(hash, {castle_hash(IF color = White THEN 0 ELSE 2)})
modify_queenside_castle(hash, color) == xor(hash, {castle_hash(IF color = White THEN 1 ELSE 3)})

modify_en_passant(hash, old, new) ==
    CASE old # NoSquare /\ new # NoSquare ->
            xor(xor(hash, {en_passant_hash(old)}), {en_passant_hash(new)})
      [] old # NoSquare /\ new = NoSquare -> xor(hash, {en_passant_hash(old)})
      [] old = NoSquare /\ new # NoSquare -> xor(hash, {en_passant_hash(new)})
      [] OTHER -> hash

\* ------------------------------------------------------------------
\* core/move.rs: a Move is its 16-bit encoding
\* ------------------------------------------------------------------
ATTR_QUIET == 0
ATTR_DOUBLE_PAWN == 1
ATTR_KING_CASTLE == 2
ATTR_QUEEN_CASTLE == 3
ATTR_CAPTURE == 4
ATTR_EN_PASSANT == 5
PROMO_BIT == 8
CAPTURE_BIT == 4

Move_new(src, dst, attr) == src * 1024 + dst * 16 + attr
Move_quiet(src, dst) == Move_new(src, dst, ATTR_QUIET)
Move_capture(src, dst) == Move_new(src, dst, ATTR_CAPTURE)
Move_en_passant(src, dst) == Move_new(src, dst, ATTR_EN_PASSANT)
Move_double_pawn_push(src, dst) == Move_new(src, dst, ATTR_DOUBLE_PAWN)
Move_kingside_castle(src, dst) == Move_new(src, dst, ATTR_KING_CASTLE)
Move_queenside_castle(src, dst) == Move_new(src, dst, ATTR_QUEEN_CASTLE)
\* Knight |= 0, Bishop |= 1, Rook |= 2, Queen |= 3
Move_promotion(src, dst, promoted) == Move_new(src, dst, PROMO_BIT + (promoted - Knight))
Move_promotion_capture(src, dst, promoted) ==
    Move_new(src, dst, PROMO_BIT + CAPTURE_BIT + (promoted - Knight))
Move_null == 0

source(mov) == mov \div 1024
destination(mov) == (mov \div 16) % 64
attr(mov) == mov % 16
is_null(mov) == mov = 0
is_capture(mov) == (attr(mov) \div CAPTURE_BIT) % 2 = 1
is_en_passant(mov) == attr(mov) = ATTR_EN_PASSANT
is_double_pawn_push(mov) == attr(mov) = ATTR_DOUBLE_PAWN
is_promotion(mov) == attr(mov) \div PROMO_BIT = 1
is_kingside_castle(mov) == attr(mov) = ATTR_KING_CASTLE
is_queenside_castle(mov) == attr(mov) = ATTR_QUEEN_CASTLE
is_castle(mov) == is_kingside_castle(mov) \/ is_queenside_castle(mov)
promotion_piece(mov) == Knight + (attr(mov) % 4)

\* ------------------------------------------------------------------
\* position.rs: Position. The field `panicked` is not a field of the struct: it
\* records that the call that produced the value panicked on the way.
\* ------------------------------------------------------------------
CastleStatus_WHITE == {WHITE_KINGSIDE, WHITE_QUEENSIDE}
CastleStatus_BLACK == {BLACK_KINGSIDE, BLACK_QUEENSIDE}

Position_new ==
    [sets_by_piece |-> [i \in 0..11 |-> {}],
     sets_by_color |-> [c \in Colors |-> {}],
     en_passant_square |-> NoSquare,
     halfmove_clock |-> 0,
     fullmove_clock |-> 0,
     castle_status |-> CastleStatus_BLACK \cup CastleStatus_WHITE,
     side_to_move |-> White,
     zobrist_hash |-> {},
     panicked |-> FALSE]

Panic(p) == [p EXCEPT !.panicked = TRUE]

U16_MAX == 65535
\* x += 1 on a u16: a panic with overflow checks, a wrap to 0 without them
u16_inc_overflows(x) == debug_assertions /\ x = U16_MAX
u16_inc(x) == (x + 1) % (U16_MAX + 1)

can_castle_kingside(p, color) ==
    (IF color = White THEN WHITE_KINGSIDE ELSE BLACK_KINGSIDE) \in p.castle_status
can_castle_queenside(p, color) ==
    (IF color = White THEN WHITE_QUEENSIDE ELSE BLACK_QUEENSIDE) \in p.castle_status
pieces(p, color) == p.sets_by_color[color]
piece_offset(color) == IF color = White THEN 0 ELSE 6
pieces_of_kind(p, color, kind) == p.sets_by_piece[piece_offset(color) + kind]

NoPiece == [kind |-> -1, color |-> -1]
PanicPiece == [kind |-> -2, color |-> -2]

piece_at(p, square) ==
    IF shl_overflows(square) THEN PanicPiece
    ELSE IF ~contains(p.sets_by_color[White], square) /\ ~contains(p.sets_by_color[Black], square)
    THEN NoPiece
    ELSE LET color == IF contains(p.sets_by_color[White], square) THEN White ELSE Black
             kinds == {k \in PieceKinds : contains(p.sets_by_piece[k + piece_offset(color)], square)}
         IN IF kinds = {} THEN PanicPiece  \* unreachable!()
            ELSE [kind |-> Min(kinds), color |-> color]

\* magic_hashes[...] panics when the index is out of bounds
square_hash_in_bounds(square, piece) ==
    square_hash(piece.kind, piece.color, square) < MAGIC_HASHES_LEN

\* add_piece without the test that the square is empty
add_piece_on_occupied(p, square, piece) ==
    IF p.panicked THEN p
    ELSE IF piece_at(p, square) = PanicPiece THEN Panic(p)
    ELSE IF ~square_hash_in_bounds(square, piece) THEN Panic(p)
    ELSE [p EXCEPT !.sets_by_color[piece.color] = insert(@, square),
                   !.sets_by_piece[piece.kind + piece_offset(piece.color)] = insert(@, square),
                   !.zobrist_hash = modify_piece(@, square, piece)]

\* add_piece: the position after the call; is_err tells Err(()) from Ok(())
add_piece_is_err(p, square) == piece_at(p, square) # NoPiece
add_piece(p, square, piece) ==
    IF p.panicked THEN p
    ELSE IF piece_at(p, square) = PanicPiece THEN Panic(p)
    ELSE IF add_piece_is_err(p, square) THEN p
    ELSE IF ~square_hash_in_bounds(square, piece) THEN Panic(p)
    ELSE [p EXCEPT !.sets_by_color[piece.color] = insert(@, square),
                   !.sets_by_piece[piece.kind + piece_offset(piece.color)] = insert(@, square),
                   !.zobrist_hash = modify_piece(@, square, piece)]

remove_piece_is_err(p, square) == piece_at(p, square) = NoPiece
remove_piece(p, square) ==
    IF p.panicked THEN p
    ELSE LET existing_piece == piece_at(p, square)
         IN IF existing_piece = PanicPiece THEN Panic(p)
            ELSE IF remove_piece_is_err(p, square) THEN p
            ELSE IF ~square_hash_in_bounds(square, existing_piece) THEN Panic(p)
            ELSE [p EXCEPT
                    !.sets_by_color[existing_piece.color] = remove(@, square),
                    !.sets_by_piece[existing_piece.kind + piece_offset(existing_piece.color)] =
                        remove(@, square),
                    !.zobrist_hash = modify_piece(@, square, existing_piece)]

\* add_piece(..).expect(..) and remove_piece(..).expect(..)
add_piece_expect(p, square, piece) ==
    IF p.panicked THEN p
    ELSE IF add_piece_is_err(p, square) THEN Panic(p)
    ELSE add_piece(p, square, piece)
remove_piece_expect(p, square) ==
    IF p.panicked THEN p
    ELSE IF remove_piece_is_err(p, square) THEN Panic(p)
    ELSE remove_piece(p, square)

kingside_rook(color) == IF color = White THEN H1 ELSE H8
queenside_rook(color) == IF color = White THEN A1 ELSE A8
kingside_castle_mask(color) == IF color = White THEN {WHITE_KINGSIDE} ELSE {BLACK_KINGSIDE}
queenside_castle_mask(color) == IF color = White THEN {WHITE_QUEENSIDE} ELSE {BLACK_QUEENSIDE}
castle_mask(color) == IF color = White THEN CastleStatus_WHITE ELSE CastleStatus_BLACK

\* ------------------------------------------------------------------
\* position.rs: make_move, one operator per block of the function
\* ------------------------------------------------------------------
make_null_move(p) ==
    LET side == toggle(p.side_to_move)
    IN IF side = White /\ u16_inc_overflows(p.fullmove_clock) THEN Panic(p)
       ELSE [p EXCEPT !.en_passant_square = NoSquare,
                      !.side_to_move = side,
                      !.zobrist_hash = modify_side_to_move(@),
                      !.fullmove_clock = IF side = White THEN u16_inc(@) ELSE @]

\* if mov.is_capture() { ... }
make_move_capture(p, mov) ==
    IF p.panicked \/ ~is_capture(mov) THEN p
    ELSE IF is_en_passant(mov) /\ p.en_passant_square = NoSquare THEN Panic(p)
    ELSE LET them == toggle(p.side_to_move)
             ep_dir == IF p.side_to_move = White THEN "South" ELSE "North"
             target_square == IF ~is_en_passant(mov) THEN destination(mov)
                              ELSE towards(p.en_passant_square, ep_dir)
             q == remove_piece_expect(p, target_square)
         IN IF q.panicked THEN q
            ELSE IF target_square = kingside_rook(them)
            THEN [q EXCEPT !.castle_status = @ \ kingside_castle_mask(them),
                           !.zobrist_hash = modify_kingside_castle(@, them)]
            ELSE IF target_square = queenside_rook(them)
            THEN [q EXCEPT !.castle_status = @ \ queenside_castle_mask(them),
                           !.zobrist_hash = modify_queenside_castle(@, them)]
            ELSE q

\* if mov.is_castle() { ... }: the rook's half of the castle
make_move_castle(p, mov) ==
    IF p.panicked \/ ~is_castle(mov) THEN p
    ELSE LET post_castle_dir == IF is_kingside_castle(mov) THEN "West" ELSE "East"
             pre_castle_dir == IF is_kingside_castle(mov) THEN "East" ELSE "West"
             new_rook_square == towards(destination(mov), post_castle_dir)
             rook_square == IF is_kingside_castle(mov)
                            THEN towards(destination(mov), pre_castle_dir)
                            ELSE towards(towards(destination(mov), pre_castle_dir), pre_castle_dir)
             rook == piece_at(p, rook_square)
         IN IF rook = NoPiece \/ rook = PanicPiece THEN Panic(p)
            ELSE add_piece_expect(remove_piece_expect(p, rook_square), new_rook_square, rook)

\* remove the moving piece from the source, add piece_to_add to the destination
make_move_place(p, mov, moving_piece) ==
    LET piece_to_add == IF is_promotion(mov)
                        THEN [kind |-> promotion_piece(mov), color |-> p.side_to_move]
                        ELSE moving_piece
    IN add_piece_expect(remove_piece_expect(p, source(mov)), destination(mov), piece_to_add)

\* make_move_en_passant without the else branch of line 413
make_move_en_passant_keeps(p, mov) ==
    IF p.panicked THEN p
    ELSE IF is_double_pawn_push(mov)
    THEN LET ep_dir == IF p.side_to_move = White THEN "South" ELSE "North"
             ep_square == towards(destination(mov), ep_dir)
         IN [p EXCEPT !.zobrist_hash = modify_en_passant(@, p.en_passant_square, ep_square),
                      !.en_passant_square = ep_square]
    ELSE p

\* make_move_castle_status with a king move that revokes the kingside right only
make_move_castle_status_kingside(p, mov, moving_piece) ==
    LET us == p.side_to_move
    IN IF p.panicked THEN p
       ELSE IF moving_piece.kind = Rook
       THEN IF can_castle_queenside(p, us) /\ source(mov) = queenside_rook(us)
            THEN [p EXCEPT !.castle_status = @ \ queenside_castle_mask(us),
                           !.zobrist_hash = modify_queenside_castle(@, us)]
            ELSE IF can_castle_kingside(p, us) /\ source(mov) = kingside_rook(us)
            THEN [p EXCEPT !.castle_status = @ \ kingside_castle_mask(us),
                           !.zobrist_hash = modify_kingside_castle(@, us)]
            ELSE p
       ELSE IF moving_piece.kind = King
       THEN [p EXCEPT !.castle_status = @ \ kingside_castle_mask(us),
                      !.zobrist_hash = modify_kingside_castle(@, us)]
       ELSE p

\* the en-passant square and its key
make_move_en_passant(p, mov) ==
    IF p.panicked THEN p
    ELSE IF is_double_pawn_push(mov)
    THEN LET ep_dir == IF p.side_to_move = White THEN "South" ELSE "North"
             ep_square == towards(destination(mov), ep_dir)
         IN [p EXCEPT !.zobrist_hash = modify_en_passant(@, p.en_passant_square, ep_square),
                      !.en_passant_square = ep_square]
    ELSE \* the field is cleared first, so modify_en_passant is handed (None, None)
         LET q == [p EXCEPT !.en_passant_square = NoSquare]
         IN [q EXCEPT !.zobrist_hash = modify_en_passant(@, q.en_passant_square, NoSquare)]

\* castle rights lost by the mover
make_move_castle_status(p, mov, moving_piece) ==
    LET us == p.side_to_move
    IN IF p.panicked THEN p
       ELSE IF moving_piece.kind = Rook
       THEN IF can_castle_queenside(p, us) /\ source(mov) = queenside_rook(us)
            THEN [p EXCEPT !.castle_status = @ \ queenside_castle_mask(us),
                           !.zobrist_hash = modify_queenside_castle(@, us)]
            ELSE IF can_castle_kingside(p, us) /\ source(mov) = kingside_rook(us)
            THEN [p EXCEPT !.castle_status = @ \ kingside_castle_mask(us),
                           !.zobrist_hash = modify_kingside_castle(@, us)]
            ELSE p
       ELSE IF moving_piece.kind = King
       THEN [p EXCEPT !.castle_status = @ \ castle_mask(us),
                      !.zobrist_hash = modify_kingside_castle(modify_queenside_castle(@, us), us)]
       ELSE p

\* side to move and the two clocks
make_move_clocks(p, mov, moving_piece) ==
    IF p.panicked THEN p
    ELSE LET side == toggle(p.side_to_move)
             resets == is_capture(mov) \/ moving_piece.kind = Pawn
         IN IF (~resets /\ u16_inc_overflows(p.halfmove_clock))
               \/ (side = White /\ u16_inc_overflows(p.fullmove_clock))
            THEN Panic(p)
            ELSE [p EXCEPT !.side_to_move = side,
                           !.zobrist_hash = modify_side_to_move(@),
                           !.halfmove_clock = IF resets THEN 0 ELSE u16_inc(@),
                           !.fullmove_clock = IF side = White THEN u16_inc(@) ELSE @]

make_move(p, mov) ==
    IF p.panicked THEN p
    ELSE IF is_null(mov) THEN make_null_move(p)
    ELSE LET moving_piece == piece_at(p, source(mov))
         IN IF moving_piece = NoPiece \/ moving_piece = PanicPiece THEN Panic(p)
            ELSE make_move_clocks(
                   make_move_castle_status(
                     make_move_en_passant(
                       make_move_place(
                         make_move_castle(make_move_capture(p, mov), mov),
                         mov, moving_piece),
                       mov),
                     mov, moving_piece),
                   mov, moving_piece)

\* ------------------------------------------------------------------
\* position.rs: from_fen on the six fields of a well-formed FEN string. The
\* placement field is the list of (square, piece) pairs in the order the parser
\* meets them: rank 8 down to rank 1, file a to file h.
\* ------------------------------------------------------------------
RECURSIVE from_fen_placement(_, _)
from_fen_placement(p, placement) ==
    IF placement = <<>> THEN p
    ELSE from_fen_placement(add_piece_expect(p, Head(placement)[1], Head(placement)[2]),
                            Tail(placement))

from_fen(fen) ==
    LET p == from_fen_placement(Position_new, fen.placement)
    IN IF p.panicked THEN p
       ELSE [p EXCEPT !.side_to_move = fen.side_to_move,
                      !.castle_status = fen.castle_status,
                      !.en_passant_square = fen.en_passant_square,
                      !.halfmove_clock = fen.halfmove_clock,
                      !.fullmove_clock = fen.fullmove_clock]

Piece(kind, color) == [kind |-> kind, color |-> color]
Fen(placement, side, castle, ep, half, full) ==
    [placement |-> placement, side_to_move |-> side, castle_status |-> castle,
     en_passant_square |-> ep, halfmove_clock |-> half, fullmove_clock |-> full]

A2 == 8
B2 == 9
D2 == 11
E2 == 12
E3 == 20
D4 == 27
E4 == 28
A7 == 48
D8 == 59

\* "4k3/8/8/8/8/8/4P3/4K3 w - - 0 1"
FenPawn == Fen(<< <<E8, Piece(King, Black)>>, <<E2, Piece(Pawn, White)>>,
                  <<E1, Piece(King, White)>> >>, White, {}, NoSquare, 0, 1)
\* "r3k2r/8/8/8/8/8/8/R3K2R w KQkq - 0 1"
FenCastle == Fen(<< <<A8, Piece(Rook, Black)>>, <<E8, Piece(King, Black)>>,
                    <<H8, Piece(Rook, Black)>>, <<A1, Piece(Rook, White)>>,
                    <<E1, Piece(King, White)>>, <<H1, Piece(Rook, White)>> >>,
                 White, CastleFlags, NoSquare, 0, 1)
\* "4k3/P7/8/8/3pP3/8/8/4K3 b - e3 0 1"
FenEnPassant == Fen(<< <<E8, Piece(King, Black)>>, <<A7, Piece(Pawn, White)>>,
                       <<D4, Piece(Pawn, Black)>>, <<E4, Piece(Pawn, White)>>,
                       <<E1, Piece(King, White)>> >>, Black, {}, E3, 0, 1)
\* "4k3/8/8/8/8/8/8/4K2R b K - 65535 65535"
FenClocks == Fen(<< <<E8, Piece(King, Black)>>, <<E1, Piece(King, White)>>,
                    <<H1, Piece(Rook, White)>> >>,
                 Black, {WHITE_KINGSIDE}, NoSquare, U16_MAX, U16_MAX)

FenInputs == {FenPawn, FenCastle, FenEnPassant, FenClocks}

\* ------------------------------------------------------------------
\* position.rs: the FEN text, as the sequence of its characters
\* ------------------------------------------------------------------
DigitChars == <<"0", "1", "2", "3", "4", "5", "6", "7", "8", "9">>
FileChars == <<"a", "b", "c", "d", "e", "f", "g", "h">>
BlackPieceChars == <<"p", "n", "b", "r", "q", "k">>
WhitePieceChars == <<"P", "N", "B", "R", "Q", "K">>

\* char::is_digit(10)
is_digit(c) == \E n \in 0..9 : DigitChars[n + 1] = c
digit_value(c) == CHOOSE n \in 0..9 : DigitChars[n + 1] = c

\* Display for an unsigned integer
RECURSIVE to_string(_)
to_string(n) ==
    IF n < 10 THEN << DigitChars[n + 1] >>
    ELSE to_string(n \div 10) \o << DigitChars[(n % 10) + 1] >>

\* str::parse::<u16>: the value, or -1 for an Err
RECURSIVE parse_number(_, _)
parse_number(buf, acc) ==
    IF buf = << >> THEN acc
    ELSE parse_number(Tail(buf), acc * 10 + digit_value(Head(buf)))
parse_u16(buf) ==
    IF buf = << >> \/ parse_number(buf, 0) > U16_MAX THEN -1 ELSE parse_number(buf, 0)

\* Display for Piece, TryFrom<char> for Piece
piece_char(piece) ==
    IF piece.color = White THEN WhitePieceChars[piece.kind + 1]
    ELSE BlackPieceChars[piece.kind + 1]
piece_try_from(c) ==
    IF \E k \in PieceKinds : BlackPieceChars[k + 1] = c
    THEN Piece(CHOOSE k \in PieceKinds : BlackPieceChars[k + 1] = c, Black)
    ELSE IF \E k \in PieceKinds : WhitePieceChars[k + 1] = c
    THEN Piece(CHOOSE k \in PieceKinds : WhitePieceChars[k + 1] = c, White)
    ELSE NoPiece

\* Display for Square, TryFrom<char> for File and for Rank (-1 for an Err)
square_string(sq) == << FileChars[file(sq) + 1], DigitChars[rank(sq) + 2] >>
file_try_from(c) ==
    IF \E f \in 0..7 : FileChars[f + 1] = c THEN CHOOSE f \in 0..7 : FileChars[f + 1] = c
    ELSE -1
rank_try_from(c) ==
    IF \E r \in 0..7 : DigitChars[r + 2] = c THEN CHOOSE r \in 0..7 : DigitChars[r + 2] = c
    ELSE -1

\* as_fen: one rank of the board, file by file
RECURSIVE as_fen_rank(_, _, _, _)
as_fen_rank(p, r, f, empty_squares) ==
    IF f > 7
    THEN (IF empty_squares # 0 THEN to_string(empty_squares) ELSE << >>)
    ELSE IF piece_at(p, Square_of(r, f)) # NoPiece
    THEN (IF empty_squares # 0 THEN to_string(empty_squares) ELSE << >>)
         \o << piece_char(piece_at(p, Square_of(r, f))) >>
         \o as_fen_rank(p, r, f + 1, 0)
    ELSE as_fen_rank(p, r, f + 1, empty_squares + 1)

\* for rank in core::ranks().rev()
RECURSIVE as_fen_ranks(_, _)
as_fen_ranks(p, r) ==
    as_fen_rank(p, r, 0, 0)
    \o (IF r # 0 THEN << "/" >> \o as_fen_ranks(p, r - 1) ELSE << >>)

as_fen(p) ==
    as_fen_ranks(p, 7)
    \o << " " >>
    \o << IF p.side_to_move = White THEN "w" ELSE "b" >>
    \o << " " >>
    \o (IF can_castle_kingside(p, White) THEN << "K" >> ELSE << >>)
    \o (IF can_castle_queenside(p, White) THEN << "Q" >> ELSE << >>)
    \o (IF can_castle_kingside(p, Black) THEN << "k" >> ELSE << >>)
    \o (IF can_castle_queenside(p, Black) THEN << "q" >> ELSE << >>)
    \o << " " >>
    \o (IF p.en_passant_square # NoSquare THEN square_string(p.en_passant_square) ELSE << "-" >>)
    \o << " " >>
    \o to_string(p.halfmove_clock)
    \o << " " >>
    \o to_string(p.fullmove_clock)

\* from_fen: the stream is the text and the index of its next character;
\* a result is [err, i, value], err = "" for Ok
NoChar == ""
peek(text, i) == IF i <= Len(text) THEN text[i] ELSE NoChar
FenOk(i, value) == [err |-> "", i |-> i, value |-> value]
FenErr(err) == [err |-> err, i |-> 0, value |-> 0]

eat(text, i, expected) ==
    IF peek(text, i) = expected THEN FenOk(i + 1, 0)
    ELSE IF peek(text, i) = NoChar THEN FenErr("UnexpectedEnd")
    ELSE FenErr("UnexpectedChar")

eat_side_to_move(text, i) ==
    IF peek(text, i) = NoChar THEN FenErr("UnexpectedEnd")
    ELSE IF peek(text, i) = "w" THEN FenOk(i + 1, White)
    ELSE IF peek(text, i) = "b" THEN FenOk(i + 1, Black)
    ELSE FenErr("InvalidSideToMove")

\* for _ in 0..4
RECURSIVE eat_castle_loop(_, _, _, _)
eat_castle_loop(text, i, n, status) ==
    IF n = 4 THEN FenOk(i, status)
    ELSE LET c == peek(text, i)
         IN IF c = NoChar THEN FenErr("UnexpectedEnd")
            ELSE IF c = "K" THEN eat_castle_loop(text, i + 1, n + 1, status \cup {WHITE_KINGSIDE})
            ELSE IF c = "k" THEN eat_castle_loop(text, i + 1, n + 1, status \cup {BLACK_KINGSIDE})
            ELSE IF c = "Q" THEN eat_castle_loop(text, i + 1, n + 1, status \cup {WHITE_QUEENSIDE})
            ELSE IF c = "q" THEN eat_castle_loop(text, i + 1, n + 1, status \cup {BLACK_QUEENSIDE})
            ELSE IF c = " " THEN FenOk(i, status)
            ELSE FenErr("InvalidCastle")

eat_castle_status(text, i) ==
    IF peek(text, i) = NoChar THEN FenErr("UnexpectedEnd")
    ELSE IF peek(text, i) = "-" THEN FenOk(i + 1, {})
    ELSE eat_castle_loop(text, i, 0, {})

eat_en_passant(text, i) ==
    LET c == peek(text, i)
        rank_c == peek(text, i + 1)
    IN IF c = NoChar THEN FenErr("UnexpectedEnd")
       ELSE IF c = "-" THEN FenOk(i + 1, NoSquare)
       ELSE IF file_try_from(c) = -1 THEN FenErr("InvalidEnPassant")
       ELSE IF rank_c = NoChar THEN FenErr("UnexpectedEnd")
       ELSE IF rank_try_from(rank_c) = -1 THEN FenErr("InvalidEnPassant")
       ELSE FenOk(i + 2, Square_of(rank_try_from(rank_c), file_try_from(c)))

\* the loop of eat_halfmove: peek fails at the end of the text
RECURSIVE eat_halfmove_loop(_, _, _)
eat_halfmove_loop(text, i, buf) ==
    IF peek(text, i) = NoChar THEN FenErr("UnexpectedEnd")
    ELSE IF ~is_digit(peek(text, i)) THEN FenOk(i, buf)
    ELSE eat_halfmove_loop(text, i + 1, Append(buf, peek(text, i)))

eat_halfmove(text, i) ==
    LET r == eat_halfmove_loop(text, i, << >>)
    IN IF r.err # "" THEN r
       ELSE IF r.value = << >> THEN FenErr("EmptyHalfmove")
       ELSE IF parse_u16(r.value) = -1 THEN FenErr("InvalidHalfmove")
       ELSE FenOk(r.i, parse_u16(r.value))

\* the loop of eat_fullmove: `for ch in iter` ends with the text
RECURSIVE eat_fullmove_loop(_, _, _)
eat_fullmove_loop(text, i, buf) ==
    IF peek(text, i) = NoChar THEN FenOk(i, buf)
    ELSE IF ~is_digit(peek(text, i)) THEN FenOk(i + 1, buf)
    ELSE eat_fullmove_loop(text, i + 1, Append(buf, peek(text, i)))

eat_fullmove(text, i) ==
    LET r == eat_fullmove_loop(text, i, << >>)
    IN IF r.value = << >> THEN FenErr("EmptyFullmove")
       ELSE IF parse_u16(r.value) = -1 THEN FenErr("InvalidFullmove")
       ELSE FenOk(r.i, parse_u16(r.value))

\* `while file <= 7` for one rank; the value is the list of pieces to add
RECURSIVE eat_rank(_, _, _, _, _)
eat_rank(text, i, r, f, placement) ==
    IF f > 7 THEN FenOk(i, placement)
    ELSE LET c == peek(text, i)
         IN IF c = NoChar THEN FenErr("UnexpectedEnd")
            ELSE IF is_digit(c)
            THEN (IF digit_value(c) < 1 \/ digit_value(c) > 8 THEN FenErr("InvalidDigit")
                  ELSE IF f + digit_value(c) > 8 THEN FenErr("FileDoesNotSumToEight")
                  ELSE eat_rank(text, i + 1, r, f + digit_value(c), placement))
            ELSE IF piece_try_from(c) = NoPiece THEN FenErr("UnknownPiece")
            ELSE eat_rank(text, i + 1, r, f + 1,
                          Append(placement, << Square_of(r, f), piece_try_from(c) >>))

RECURSIVE eat_ranks(_, _, _, _)
eat_ranks(text, i, r, placement) ==
    LET this == eat_rank(text, i, r, 0, placement)
        slash == eat(text, this.i, "/")
    IN IF this.err # "" THEN this
       ELSE IF r = 0 THEN this
       ELSE IF slash.err # "" THEN slash
       ELSE eat_ranks(text, slash.i, r - 1, this.value)

\* from_fen on a text: the fields it reads, or the error
parse_fen(text) ==
    LET placement == eat_ranks(text, 1, 7, << >>)
        space1 == eat(text, placement.i, " ")
        side == eat_side_to_move(text, space1.i)
        space2 == eat(text, side.i, " ")
        castle == eat_castle_status(text, space2.i)
        space3 == eat(text, castle.i, " ")
        ep == eat_en_passant(text, space3.i)
        space4 == eat(text, ep.i, " ")
        half == eat_halfmove(text, space4.i)
        space5 == eat(text, half.i, " ")
        full == eat_fullmove(text, space5.i)
    IN IF placement.err # "" THEN placement
       ELSE IF space1.err # "" THEN space1
       ELSE IF side.err # "" THEN side
       ELSE IF space2.err # "" THEN space2
       ELSE IF castle.err # "" THEN castle
       ELSE IF space3.err # "" THEN space3
       ELSE IF ep.err # "" THEN ep
       ELSE IF space4.err # "" THEN space4
       ELSE IF half.err # "" THEN half
       ELSE IF space5.err # "" THEN space5
       ELSE IF full.err # "" THEN full
       ELSE FenOk(full.i, Fen(placement.value, side.value, castle.value, ep.value, half.value,
                              full.value))

\* Position::from_fen(text): [err, pos]
from_fen_str(text) ==
    IF parse_fen(text).err # "" THEN [err |-> parse_fen(text).err, pos |-> Position_new]
    ELSE [err |-> "", pos |-> from_fen(parse_fen(text).value)]

\* ------------------------------------------------------------------
\* A Position driven through its public operations
\* ------------------------------------------------------------------
MaxOps == 4

PieceInputs == {Piece(Rook, White), Piece(Pawn, White), Piece(Rook, Black)}
SquareInputs == {E1, H1, E2, H8}
MoveInputs ==
    {Move_null,
     Move_quiet(E2, E3), Move_quiet(E3, E4), Move_double_pawn_push(E2, E4),
     Move_quiet(E1, E2),
     Move_quiet(H1, E1), Move_capture(H1, H8), Move_capture(E2, H8),
     Move_kingside_castle(E1, G1), Move_queenside_castle(E1, C1),
     Move_quiet(E8, D8), Move_en_passant(D4, E3), Move_capture(D4, E3),
     Move_promotion(A7, A8, Queen), Move_promotion_capture(A7, A8, Knight),
     Move_quiet(H8, H1)}

PosStep(op, p) ==
    /\ nops < MaxOps
    /\ ~pos.panicked
    /\ pos' = p
    /\ last_op' = op
    /\ nops' = nops + 1
    /\ UNCHANGED <<debug_assertions, pos2, moves, gen_side>>

FromFen == \E fen \in FenInputs : PosStep("from_fen", from_fen(fen))
AddPiece == \E sq \in SquareInputs, piece \in PieceInputs :
                PosStep("add_piece", add_piece(pos, sq, piece))
RemovePiece == \E sq \in SquareInputs : PosStep("remove_piece", remove_piece(pos, sq))
MakeMove == \E mov \in MoveInputs : PosStep("make_move", make_move(pos, mov))

PosInit ==
    /\ debug_assertions \in BOOLEAN
    /\ pos = Position_new
    /\ pos2 = Position_new
    /\ moves = {}
    /\ gen_side = White
    /\ last_op = "new"
    /\ nops = 0

\* the colour board of `color` is the union of its six kind boards
color_is_union(p, color) ==
    p.sets_by_color[color] = UNION {p.sets_by_piece[piece_offset(color) + k] : k \in PieceKinds}
\* the twelve kind boards are pairwise disjoint
kinds_disjoint(p) ==
    \A i, j \in 0..11 : i # j => p.sets_by_piece[i] \cap p.sets_by_piece[j] = {}

\* ------------------------------------------------------------------
\* Two copies of one start position, each moved by its own make_move sequence
\* ------------------------------------------------------------------
MaxHashOps == 6

HashInit ==
    /\ debug_assertions \in BOOLEAN
    /\ pos = Position_new
    /\ pos2 = Position_new
    /\ moves = {}
    /\ gen_side = White
    /\ last_op = "new"
    /\ nops = 0

\* both copies are parsed from the same FEN string
HashFromFen == \E fen \in FenInputs :
    /\ last_op = "new"
    /\ pos' = from_fen(fen)
    /\ pos2' = from_fen(fen)
    /\ last_op' = "from_fen"
    /\ UNCHANGED <<debug_assertions, moves, gen_side, nops>>

\* the moves handed to make_move are null or move a piece of the side to move
moves_own_piece(p, mov) ==
    is_null(mov) \/ piece_at(p, source(mov)).color = p.side_to_move

HashStep ==
    /\ last_op # "new"
    /\ nops < MaxHashOps
    /\ ~pos.panicked /\ ~pos2.panicked
    /\ nops' = nops + 1
    /\ UNCHANGED <<debug_assertions, moves, gen_side>>

MakeMoveFirst == \E mov \in MoveInputs :
    /\ HashStep
    /\ moves_own_piece(pos, mov)
    /\ pos' = make_move(pos, mov)
    /\ last_op' = "make_move"
    /\ UNCHANGED pos2
MakeMoveSecond == \E mov \in MoveInputs :
    /\ HashStep
    /\ moves_own_piece(pos2, mov)
    /\ pos2' = make_move(pos2, mov)
    /\ last_op' = "make_move_2"
    /\ UNCHANGED pos

\* equal piece placement, side to move, castling rights and en-passant square
same_position(p, q) ==
    /\ p.sets_by_piece = q.sets_by_piece
    /\ p.side_to_move = q.side_to_move
    /\ p.castle_status = q.castle_status
    /\ p.en_passant_square = q.en_passant_square

\* ------------------------------------------------------------------
\* gambit/src/position.rs: the Position of the gambit crate, which keeps the
\* irreversible fields in a record and the records of earlier positions in a Vec
\* ------------------------------------------------------------------
VARIABLES
    gpos,       \* a gambit Position
    gsaved,     \* the positions held just before each make_move not yet unmade
    gmade,      \* the moves made and not yet unmade
    gexpected,  \* the position held before the make_move that was last unmade
    glast       \* the last operation applied to gpos

NoMove == -1

gambit_Position_new ==
    [sets_by_piece |-> [i \in 0..11 |-> {}],
     sets_by_color |-> [c \in Colors |-> {}],
     current_information |->
        [mov |-> NoMove, halfmove_clock |-> 0, fullmove_clock |-> 0,
         castle_status |-> CastleStatus_BLACK \cup CastleStatus_WHITE,
         en_passant_square |-> NoSquare],
     previous_information |-> <<>>,
     side_to_move |-> White,
     panicked |-> FALSE]

gambit_piece_at(p, square) == piece_at(p, square)

gambit_add_piece(p, square, piece) ==
    IF p.panicked THEN p
    ELSE IF gambit_piece_at(p, square) = PanicPiece THEN Panic(p)
    ELSE IF gambit_piece_at(p, square) # NoPiece THEN Panic(p)  \* .expect(..) on Err(())
    ELSE [p EXCEPT !.sets_by_color[piece.color] = insert(@, square),
                   !.sets_by_piece[piece.kind + piece_offset(piece.color)] = insert(@, square)]

gambit_remove_piece(p, square) ==
    IF p.panicked THEN p
    ELSE LET existing_piece == gambit_piece_at(p, square)
         IN IF existing_piece = PanicPiece THEN Panic(p)
            ELSE IF existing_piece = NoPiece THEN Panic(p)  \* .expect(..) on Err(())
            ELSE [p EXCEPT
                    !.sets_by_color[existing_piece.color] = remove(@, square),
                    !.sets_by_piece[existing_piece.kind + piece_offset(existing_piece.color)] =
                        remove(@, square)]

gambit_make_move(p, mov) ==
    LET stashed == [p EXCEPT !.current_information.mov = mov]
        q == [stashed EXCEPT !.previous_information = Append(@, stashed.current_information)]
        side == toggle(q.side_to_move)
    IN IF is_null(mov)
       THEN IF u16_inc_overflows(q.current_information.halfmove_clock)
               \/ (side = White /\ u16_inc_overflows(q.current_information.fullmove_clock))
            THEN Panic(q)
            ELSE [q EXCEPT !.current_information.en_passant_square = NoSquare,
                           !.current_information.halfmove_clock = u16_inc(@),
                           !.side_to_move = side,
                           !.current_information.fullmove_clock =
                                IF side = White THEN u16_inc(@) ELSE @]
       ELSE LET moving_piece == gambit_piece_at(q, source(mov))
                r == gambit_add_piece(gambit_remove_piece(q, source(mov)),
                                      destination(mov), moving_piece)
            IN IF moving_piece = NoPiece \/ moving_piece = PanicPiece THEN Panic(q)
               ELSE IF r.panicked THEN r
               ELSE IF side = White /\ u16_inc_overflows(r.current_information.fullmove_clock)
               THEN Panic(r)
               ELSE [r EXCEPT !.side_to_move = side,
                              !.current_information.fullmove_clock =
                                   IF side = White THEN u16_inc(@) ELSE @]

gambit_unmake_move(p, mov) ==
    IF p.previous_information = <<>> THEN Panic(p)
    ELSE IF p.previous_information[Len(p.previous_information)].mov # mov THEN Panic(p)
    ELSE LET n == Len(p.previous_information)
             q == [p EXCEPT !.current_information =
                                [p.previous_information[n] EXCEPT !.mov = NoMove],
                            !.previous_information = SubSeq(@, 1, n - 1)]
             moved_piece == gambit_piece_at(q, destination(mov))
             r == gambit_add_piece(gambit_remove_piece(q, destination(mov)),
                                   source(mov), moved_piece)
         IN IF moved_piece = NoPiece \/ moved_piece = PanicPiece THEN Panic(q)
            ELSE IF r.panicked THEN r
            ELSE [r EXCEPT !.side_to_move = toggle(@)]

RECURSIVE gambit_from_fen_placement(_, _)
gambit_from_fen_placement(p, placement) ==
    IF placement = <<>> THEN p
    ELSE gambit_from_fen_placement(
            gambit_add_piece(p, Head(placement)[1], Head(placement)[2]), Tail(placement))

gambit_from_fen(fen) ==
    LET p == gambit_from_fen_placement(gambit_Position_new, fen.placement)
    IN IF p.panicked THEN p
       ELSE [p EXCEPT !.side_to_move = fen.side_to_move,
                      !.current_information.castle_status = fen.castle_status,
                      !.current_information.en_passant_square = fen.en_passant_square,
                      !.current_information.halfmove_clock = fen.halfmove_clock,
                      !.current_information.fullmove_clock = fen.fullmove_clock]

\* "8/8/8/8/8/4P3/8/8 w - - 0 1", the position of tests::make_unmake::basic_movement
FenBasicMovement == Fen(<< <<E3, Piece(Pawn, White)>> >>, White, {}, NoSquare, 0, 1)
GambitFenInputs == {FenBasicMovement, FenPawn, FenCastle, FenEnPassant, FenClocks}
GambitMoveInputs ==
    {Move_null, Move_quiet(E3, E4), Move_quiet(E2, E3), Move_double_pawn_push(E2, E4),
     Move_quiet(E1, E2), Move_kingside_castle(E1, G1), Move_queenside_castle(E1, C1),
     Move_quiet(E8, D8), Move_en_passant(D4, E3), Move_promotion(A7, A8, Queen),
     Move_capture(H1, H8), Move_quiet(A1, B1)}

MaxGambitDepth == 2

GambitInit ==
    /\ debug_assertions \in BOOLEAN
    /\ gpos = gambit_Position_new
    /\ gexpected = gambit_Position_new
    /\ gsaved = <<>>
    /\ gmade = <<>>
    /\ glast = "new"

GambitFromFen == \E fen \in GambitFenInputs :
    /\ glast = "new"
    /\ gpos' = gambit_from_fen(fen)
    /\ glast' = "from_fen"
    /\ UNCHANGED <<debug_assertions, gsaved, gmade, gexpected>>

\* make_move(mov)
GambitMakeMove == \E mov \in GambitMoveInputs :
    /\ glast # "new"
    /\ Len(gmade) < MaxGambitDepth
    /\ ~gpos.panicked
    /\ gpos' = gambit_make_move(gpos, mov)
    /\ gsaved' = Append(gsaved, gpos)
    /\ gmade' = Append(gmade, mov)
    /\ glast' = "make_move"
    /\ UNCHANGED <<debug_assertions, gexpected>>

\* unmake_move(mov) with the move that was made last
GambitUnmakeMove ==
    /\ gmade # <<>>
    /\ ~gpos.panicked
    /\ gpos' = gambit_unmake_move(gpos, gmade[Len(gmade)])
    /\ gexpected' = gsaved[Len(gsaved)]
    /\ gsaved' = SubSeq(gsaved, 1, Len(gsaved) - 1)
    /\ gmade' = SubSeq(gmade, 1, Len(gmade) - 1)
    /\ glast' = "unmake_move"
    /\ UNCHANGED debug_assertions

\* ------------------------------------------------------------------
\* position.rs: king, squares_attacking, is_check
\* ------------------------------------------------------------------
\* assert!(kings.len() <= 1)
king_panics(p, color) == Cardinality(pieces_of_kind(p, color, King)) > 1
king(p, color) ==
    IF pieces_of_kind(p, color, King) = {} THEN NoSquare
    ELSE Min(pieces_of_kind(p, color, King))

\* the attack tables hold 64 entries: a target off the board indexes out of bounds
squares_attacking_panics(p, to_move, target) == target >= 64 \/ king_panics(p, to_move)

squares_attacking(p, to_move, target) ==
    LET occupancy == pieces(p, White) \cup pieces(p, Black)
        sliding_pieces == pieces_of_kind(p, to_move, Queen)
                          \cup pieces_of_kind(p, to_move, Rook)
                          \cup pieces_of_kind(p, to_move, Bishop)
        sliding_attacks == queen_attacks(target, occupancy) \cap sliding_pieces
        sliders == {attacker \in sliding_attacks :
                      contains(attacks(piece_at(p, attacker).kind, piece_at(p, attacker).color,
                                       attacker, occupancy), target)}
        knights == knight_attacks(target) \cap pieces_of_kind(p, to_move, Knight)
        cant_be_attacked_by_pawns_rank == IF to_move = White THEN 0 ELSE 7
        pawn_attack_rank == IF to_move = White THEN rank(towards(target, "South"))
                            ELSE rank(towards(target, "North"))
        pawns == IF rank(target) # cant_be_attacked_by_pawns_rank
                 THEN {pawn \in pieces_of_kind(p, to_move, Pawn) \cap SS_RANK(pawn_attack_rank) :
                         contains(pawn_attacks(pawn, to_move), target)}
                 ELSE {}
        kings == IF king(p, to_move) # NoSquare /\ contains(king_attacks(king(p, to_move)), target)
                 THEN {king(p, to_move)} ELSE {}
    IN sliders \cup knights \cup pawns \cup kings

is_check_panics(p, us) ==
    king_panics(p, us) \/ (king(p, us) # NoSquare /\ king_panics(p, toggle(us)))
is_check(p, us) ==
    IF king(p, us) # NoSquare THEN squares_attacking(p, toggle(us), king(p, us)) # {}
    ELSE FALSE

\* ------------------------------------------------------------------
\* movegen.rs: the moves pushed to the Vec, as a set
\* ------------------------------------------------------------------
PromotionKinds == {Bishop, Knight, Rook, Queen}

generate_pawn_moves(us, p) ==
    LET them == toggle(us)
        their_pieces == pieces(p, them)
        our_pieces == pieces(p, us)
        all_pieces == their_pieces \cup our_pieces
        empty_squares == Squares \ all_pieces
        up == IF us = White THEN "North" ELSE "South"
        down == IF us = White THEN "South" ELSE "North"
        up_left == IF us = White THEN "NorthWest" ELSE "SouthWest"
        up_right == IF us = White THEN "NorthEast" ELSE "SouthEast"
        promo_rank == IF us = White THEN SS_RANK(7) ELSE SS_RANK(0)
        start_rank == IF us = White THEN SS_RANK(1) ELSE SS_RANK(6)
        rank_below_promo == shift(promo_rank, down)
        our_pawns == pieces_of_kind(p, us, Pawn)
        single_pushes == shift(our_pawns \ rank_below_promo, up) \cap empty_squares
        double_pushes == shift(single_pushes \cap shift(start_rank, up), up) \cap empty_squares
        pawns_near_promo == our_pawns \cap rank_below_promo
        up_left_promo == shift(pawns_near_promo, up_left) \cap their_pieces
        up_right_promo == shift(pawns_near_promo, up_right) \cap their_pieces
        up_promo == shift(pawns_near_promo, up) \cap empty_squares
        non_f7_pawns == our_pawns \ pawns_near_promo
        up_left_cap == shift(non_f7_pawns, up_left) \cap their_pieces
        up_right_cap == shift(non_f7_pawns, up_right) \cap their_pieces
    IN {Move_quiet(towards(target, down), target) : target \in single_pushes}
       \cup {Move_double_pawn_push(towards(towards(target, down), down), target) :
                target \in double_pushes}
       \cup {Move_promotion_capture(towards(target, reverse(up_left)), target, kind) :
                target \in up_left_promo, kind \in PromotionKinds}
       \cup {Move_promotion_capture(towards(target, reverse(up_right)), target, kind) :
                target \in up_right_promo, kind \in PromotionKinds}
       \cup {Move_promotion(towards(target, reverse(up)), target, kind) :
                target \in up_promo, kind \in PromotionKinds}
       \cup {Move_capture(towards(target, reverse(up_left)), target) : target \in up_left_cap}
       \cup {Move_capture(towards(target, reverse(up_right)), target) : target \in up_right_cap}
       \cup (IF p.en_passant_square # NoSquare
             THEN {Move_en_passant(src, p.en_passant_square) :
                      src \in pawn_attacks(p.en_passant_square, them) \cap our_pawns}
             ELSE {})

generate_moves_for_kind(us, p, kind) ==
    LET all_pieces == pieces(p, White) \cup pieces(p, Black)
        enemy_pieces == pieces(p, toggle(us))
    IN UNION {{IF contains(enemy_pieces, atk) THEN Move_capture(piece, atk)
               ELSE Move_quiet(piece, atk) : atk \in attacks(kind, us, piece, all_pieces)} :
              piece \in pieces_of_kind(p, us, kind)}

\* the squares the king crosses when castling, counted from the king's square
castle_one(p, us, dir) == towards(king(p, us), dir)
castle_two(p, us, dir) == towards(castle_one(p, us, dir), dir)
castle_three(p, us, dir) == towards(castle_two(p, us, dir), dir)

\* if let Some(piece) = pos.piece_at(starting_rook) { if piece.kind == Rook && piece.color == us
has_starting_rook(p, us, starting_rook) ==
    piece_at(p, starting_rook) = Piece(Rook, us)

\* squares one and two are attacked by nobody
castle_path_unattacked(p, us, dir) ==
    /\ squares_attacking(p, toggle(us), castle_one(p, us, dir)) = {}
    /\ squares_attacking(p, toggle(us), castle_two(p, us, dir)) = {}

generates_kingside_castle(p, us) ==
    /\ can_castle_kingside(p, us)
    /\ has_starting_rook(p, us, IF us = White THEN H1 ELSE H8)
    /\ ~contains(pieces(p, White) \cup pieces(p, Black), castle_one(p, us, "East"))
    /\ ~contains(pieces(p, White) \cup pieces(p, Black), castle_two(p, us, "East"))
    /\ castle_path_unattacked(p, us, "East")

generates_queenside_castle(p, us) ==
    /\ can_castle_queenside(p, us)
    /\ has_starting_rook(p, us, IF us = White THEN A1 ELSE A8)
    /\ ~contains(pieces(p, White) \cup pieces(p, Black), castle_one(p, us, "West"))
    /\ ~contains(pieces(p, White) \cup pieces(p, Black), castle_two(p, us, "West"))
    /\ ~contains(pieces(p, White) \cup pieces(p, Black), castle_three(p, us, "West"))
    /\ castle_path_unattacked(p, us, "West")

generate_king_moves(us, p) ==
    LET enemy_pieces == pieces(p, toggle(us))
        allied_pieces == pieces(p, us)
        king_sq == king(p, us)
        steps == {Move_capture(king_sq, target) :
                     target \in {t \in king_attacks(king_sq) : contains(enemy_pieces, t)}}
                 \cup {Move_quiet(king_sq, target) :
                     target \in {t \in king_attacks(king_sq) :
                                    ~contains(enemy_pieces, t) /\ ~contains(allied_pieces, t)}}
    IN IF king_sq = NoSquare THEN {}
       ELSE IF is_check(p, us) THEN steps
       ELSE steps
            \cup (IF generates_kingside_castle(p, us)
                  THEN {Move_kingside_castle(king_sq, castle_two(p, us, "East"))} ELSE {})
            \cup (IF generates_queenside_castle(p, us)
                  THEN {Move_queenside_castle(king_sq, castle_two(p, us, "West"))} ELSE {})

\* the conditions are evaluated left to right and stop at the first false one
castle_panics(p, us, dir, squares) ==
    LET occ == pieces(p, White) \cup pieces(p, Black)
        first_occupied == {i \in 1..Len(squares) : contains(occ, squares[i])}
        tested == IF first_occupied = {} THEN Len(squares) ELSE Min(first_occupied)
    IN \/ \E i \in 1..tested : shl_overflows(squares[i])
       \/ /\ first_occupied = {}
          /\ \/ squares_attacking_panics(p, toggle(us), squares[1])
             \/ /\ squares_attacking(p, toggle(us), squares[1]) = {}
                /\ squares_attacking_panics(p, toggle(us), squares[2])

generate_king_moves_panics(us, p) ==
    \/ king_panics(p, us)
    \/ /\ king(p, us) # NoSquare
       /\ \/ is_check_panics(p, us)
          \/ /\ ~is_check(p, us)
             /\ \/ /\ can_castle_kingside(p, us)
                   /\ has_starting_rook(p, us, IF us = White THEN H1 ELSE H8)
                   /\ castle_panics(p, us, "East",
                        <<castle_one(p, us, "East"), castle_two(p, us, "East")>>)
                \/ /\ can_castle_queenside(p, us)
                   /\ has_starting_rook(p, us, IF us = White THEN A1 ELSE A8)
                   /\ castle_panics(p, us, "West",
                        <<castle_one(p, us, "West"), castle_two(p, us, "West"),
                          castle_three(p, us, "West")>>)

generate_moves(us, p) ==
    generate_pawn_moves(us, p)
    \cup generate_moves_for_kind(us, p, Bishop)
    \cup generate_moves_for_kind(us, p, Knight)
    \cup generate_moves_for_kind(us, p, Rook)
    \cup generate_moves_for_kind(us, p, Queen)
    \cup generate_king_moves(us, p)

\* ------------------------------------------------------------------
\* Positions parsed from FEN, their generated moves, and the positions the
\* generated moves lead to
\* ------------------------------------------------------------------
MaxGenOps == 2

\* "rnbqkbnr/pppppppp/8/8/8/8/PPPPPPPP/RNBQKBNR w KQkq - 0 1"
BackRank == <<Rook, Knight, Bishop, Queen, King, Bishop, Knight, Rook>>
FenStart ==
    Fen([i \in 1..8 |-> <<A8 + i - 1, Piece(BackRank[i], Black)>>]
        \o [i \in 1..8 |-> <<A7 + i - 1, Piece(Pawn, Black)>>]
        \o [i \in 1..8 |-> <<A2 + i - 1, Piece(Pawn, White)>>]
        \o [i \in 1..8 |-> <<A1 + i - 1, Piece(BackRank[i], White)>>],
        White, CastleFlags, NoSquare, 0, 1)
\* "8/8/8/8/5r2/8/8/4K2R w K - 0 1", the position of tests::kings::castle_through_check
F4 == 29
FenCastleThroughCheck ==
    Fen(<< <<F4, Piece(Rook, Black)>>, <<E1, Piece(King, White)>>,
           <<H1, Piece(Rook, White)>> >>, White, {WHITE_KINGSIDE}, NoSquare, 0, 1)
\* "8/8/8/8/8/8/8/3K2NR w K - 0 1": the kingside right with the king on d1
FenKingOffHome ==
    Fen(<< <<D1, Piece(King, White)>>, <<G1, Piece(Knight, White)>>,
           <<H1, Piece(Rook, White)>> >>, White, {WHITE_KINGSIDE}, NoSquare, 0, 1)

GenFenInputs == {FenStart, FenCastle, FenEnPassant, FenCastleThroughCheck, FenKingOffHome, FenPawn}

GenInit ==
    /\ debug_assertions \in BOOLEAN
    /\ pos = Position_new
    /\ pos2 = Position_new
    /\ moves = {}
    /\ gen_side = White
    /\ last_op = "new"
    /\ nops = 0

GenFromFen == \E fen \in GenFenInputs :
    /\ last_op = "new"
    /\ pos' = from_fen(fen)
    /\ last_op' = "from_fen"
    /\ UNCHANGED <<debug_assertions, pos2, moves, gen_side, nops>>

\* generate_moves(us, pos, &mut moves) on an empty Vec
GenerateMoves == \E us \in Colors :
    /\ ~pos.panicked
    /\ last_op \notin {"new", "generate_moves"}
    /\ IF generate_king_moves_panics(us, pos)
       THEN pos' = Panic(pos) /\ moves' = {}
       ELSE pos' = pos /\ moves' = generate_moves(us, pos)
    /\ gen_side' = us
    /\ last_op' = "generate_moves"
    /\ UNCHANGED <<debug_assertions, pos2, nops>>

\* make_move of one of the moves generated for the side to move
MakeGenerated == \E mov \in moves :
    /\ nops < MaxGenOps
    /\ ~pos.panicked
    /\ last_op = "generate_moves"
    /\ gen_side = pos.side_to_move
    /\ pos' = make_move(pos, mov)
    /\ moves' = {}
    /\ last_op' = "make_move"
    /\ nops' = nops + 1
    /\ UNCHANGED <<debug_assertions, pos2, gen_side>>

\* ------------------------------------------------------------------
\* A position written as a FEN and read back
\* ------------------------------------------------------------------
VARIABLES
    fen_text,       \* the text as_fen returned last
    fen_err         \* the error from_fen returned for it, "" for Ok

MaxFenOps == 3
FenMoveInputs ==
    {Move_quiet(E2, E3), Move_double_pawn_push(E2, E4), Move_quiet(E1, E2), Move_quiet(E8, D8),
     Move_kingside_castle(E1, G1), Move_quiet(H1, G1), Move_capture(H1, H8),
     Move_en_passant(D4, E3), Move_promotion(A7, A8, Queen)}

FenInit ==
    /\ fen_text = << >>
    /\ fen_err = ""

FenFromFen == \E fen \in FenInputs :
    /\ last_op = "new"
    /\ pos' = from_fen(fen)
    /\ last_op' = "from_fen"
    /\ UNCHANGED <<debug_assertions, pos2, moves, gen_side, nops, fen_text, fen_err>>

FenMakeMove == \E mov \in generate_moves(pos.side_to_move, pos) \cap FenMoveInputs :
    /\ last_op # "new"
    /\ nops < MaxFenOps
    /\ ~pos.panicked
    /\ ~make_move(pos, mov).panicked
    /\ pos' = make_move(pos, mov)
    /\ last_op' = "make_move"
    /\ nops' = nops + 1
    /\ UNCHANGED <<debug_assertions, pos2, moves, gen_side, fen_text, fen_err>>

FenRoundTrip ==
    /\ last_op \in {"from_fen", "make_move"}
    /\ ~pos.panicked
    /\ fen_text' = as_fen(pos)
    /\ fen_err' = from_fen_str(as_fen(pos)).err
    /\ pos2' = from_fen_str(as_fen(pos)).pos
    /\ last_op' = "round_trip"
    /\ UNCHANGED <<debug_assertions, pos, moves, gen_side, nops>>

\* ------------------------------------------------------------------
\* A FEN text read and written back: tests::fen::start_position_roundtrip, lines 1196-1201,
\* with other texts
\* ------------------------------------------------------------------
VARIABLES
    fen_src         \* the text from_fen was called with last, << >> for none

FenTextPlacements ==
    {<< "r", "n", "b", "q", "k", "b", "n", "r", "/", "p", "p", "p", "p", "p", "p", "p", "p",
     "/", "8", "/", "8", "/", "8", "/", "8", "/", "P", "P", "P", "P", "P", "P", "P", "P",
     "/", "R", "N", "B", "Q", "K", "B", "N", "R" >>,
     << "r", "3", "k", "2", "r", "/", "8", "/", "8", "/", "8", "/", "3", "p", "P", "3", "/",
     "8", "/", "8", "/", "R", "3", "K", "2", "R" >>,
     << "4", "k", "3", "/", "8", "/", "8", "/", "8", "/", "8", "/", "4", "P", "3", "/", "8",
     "/", "4", "K", "3" >>}
FenTextCastles == {<< "-" >>, << "K" >>, << "k", "q" >>, << "K", "Q", "k", "q" >>, << "Q", "k" >>}
FenTextSquares == {<< "-" >>, << "e", "3" >>}
FenTextHalfmoves == {<< "0" >>, << "1", "2" >>}
FenTextFullmoves == {<< "1" >>, << "3", "0" >>}
FenTexts ==
    {pl \o << " ", side, " " >> \o castle \o << " " >> \o ep \o << " " >> \o half
        \o << " " >> \o full :
        pl \in FenTextPlacements, side \in {"w", "b"}, castle \in FenTextCastles,
        ep \in FenTextSquares, half \in FenTextHalfmoves, full \in FenTextFullmoves}

FenTextInit == fen_src = << >>

\* let pos = Position::from_fen(str).unwrap(); pos.as_fen()
FenTextRoundTrip == \E str \in FenTexts :
    /\ last_op = "new"
    /\ fen_src' = str
    /\ \E r \in {from_fen_str(str)} :
        /\ fen_err' = r.err
        /\ pos' = r.pos
        /\ fen_text' = (IF r.err = "" THEN as_fen(r.pos) ELSE << >>)
    /\ last_op' = "round_trip"
    /\ UNCHANGED <<debug_assertions, pos2, moves, gen_side, nops>>

\* ------------------------------------------------------------------
\* make_move along a game: the position before the last move, the move, and
\* the castling rights lost so far
\* ------------------------------------------------------------------
VARIABLES
    mk_mov,         \* the move make_move was called with last
    mk_revoked      \* the castling rights that were held once and revoked since

MaxMakeOps == 3
C8 == 58
G8 == 62
MakeMoveInputs ==
    {Move_null,
     Move_quiet(E2, E3), Move_double_pawn_push(E2, E4), Move_quiet(E1, E2), Move_quiet(E8, D8),
     Move_kingside_castle(E1, G1), Move_queenside_castle(E1, C1),
     Move_kingside_castle(E8, G8), Move_queenside_castle(E8, C8),
     Move_quiet(H1, G1), Move_quiet(G1, H1), Move_quiet(A1, B1), Move_quiet(H8, G8),
     Move_capture(H1, H8), Move_capture(A1, A8), Move_capture(A8, A1),
     Move_en_passant(D4, E3), Move_promotion(A7, A8, Queen)}

MakeInit ==
    /\ mk_mov = NoMove
    /\ mk_revoked = {}

MakeFromFen == \E fen \in FenInputs :
    /\ last_op = "new"
    /\ pos' = from_fen(fen)
    /\ pos2' = from_fen(fen)
    /\ last_op' = "from_fen"
    /\ UNCHANGED <<debug_assertions, moves, gen_side, nops, mk_mov, mk_revoked>>

\* make_move with a move of the generator, or the null move
MakeMakeMove ==
    \E mov \in (generate_moves(pos.side_to_move, pos) \cup {Move_null}) \cap MakeMoveInputs :
        /\ last_op # "new"
        /\ nops < MaxMakeOps
        /\ ~pos.panicked
        /\ pos2' = pos
        /\ pos' = make_move(pos, mov)
        /\ mk_mov' = mov
        /\ mk_revoked' = mk_revoked \cup (pos.castle_status \ make_move(pos, mov).castle_status)
        /\ last_op' = "make_move"
        /\ nops' = nops + 1
        /\ UNCHANGED <<debug_assertions, moves, gen_side>>

\* ------------------------------------------------------------------
\* core/move.rs: a move in UCI notation, as the sequence of its characters
\* ------------------------------------------------------------------
as_uci(mov) ==
    IF is_null(mov) THEN << "0", "0", "0", "0" >>
    ELSE IF ~is_promotion(mov)
    THEN square_string(source(mov)) \o square_string(destination(mov))
    ELSE square_string(source(mov)) \o square_string(destination(mov))
         \o << BlackPieceChars[promotion_piece(mov) + 1] >>

\* the promotion piece of from_uci: the kind, or -1 for `return None`
promotion_kind(move_chrs) ==
    IF Len(move_chrs) # 5 THEN -1
    ELSE IF move_chrs[5] = "n" THEN Knight
    ELSE IF move_chrs[5] = "b" THEN Bishop
    ELSE IF move_chrs[5] = "r" THEN Rook
    ELSE IF move_chrs[5] = "q" THEN Queen
    ELSE -1

\* Move::from_uci: the move, or NoMove for None
from_uci(p, move_chrs) ==
    IF Len(move_chrs) < 4 THEN NoMove
    ELSE IF move_chrs = << "0", "0", "0", "0" >> THEN Move_null
    ELSE IF file_try_from(move_chrs[1]) = -1 \/ rank_try_from(move_chrs[2]) = -1
            \/ file_try_from(move_chrs[3]) = -1 \/ rank_try_from(move_chrs[4]) = -1
    THEN NoMove
    ELSE LET src == Square_of(rank_try_from(move_chrs[2]), file_try_from(move_chrs[1]))
             dest == Square_of(rank_try_from(move_chrs[4]), file_try_from(move_chrs[3]))
             dest_piece == piece_at(p, dest)
             moving_piece == piece_at(p, src)
             white == p.side_to_move = White
             pawn_dir == IF white THEN "North" ELSE "South"
             promo_rank == IF white THEN SS_RANK(7) ELSE SS_RANK(0)
             start_rank == IF white THEN SS_RANK(1) ELSE SS_RANK(6)
             king_start == IF white THEN E1 ELSE E8
             kingside_rook_adjacent == IF white THEN G1 ELSE G8
             queenside_rook_adjacent == IF white THEN C1 ELSE C8
         IN IF moving_piece = NoPiece THEN NoMove
            ELSE IF moving_piece.kind = Pawn
            THEN (IF contains(start_rank, src) /\ towards(towards(src, pawn_dir), pawn_dir) = dest
                  THEN Move_double_pawn_push(src, dest)
                  ELSE IF contains(pawn_attacks(src, p.side_to_move), dest)
                  THEN (IF contains(promo_rank, dest)
                        THEN (IF promotion_kind(move_chrs) = -1 THEN NoMove
                              ELSE Move_promotion_capture(src, dest, promotion_kind(move_chrs)))
                        ELSE IF dest = p.en_passant_square THEN Move_en_passant(src, dest)
                        ELSE Move_capture(src, dest))
                  ELSE IF contains(promo_rank, dest)
                  THEN (IF promotion_kind(move_chrs) = -1 THEN NoMove
                        ELSE Move_promotion(src, dest, promotion_kind(move_chrs)))
                  ELSE Move_quiet(src, dest))
            ELSE IF moving_piece.kind = King /\ king_start = src /\ kingside_rook_adjacent = dest
            THEN Move_kingside_castle(src, dest)
            ELSE IF moving_piece.kind = King /\ king_start = src /\ queenside_rook_adjacent = dest
            THEN Move_queenside_castle(src, dest)
            ELSE IF dest_piece # NoPiece THEN Move_capture(src, dest)
            ELSE Move_quiet(src, dest)

\* Position::is_legal_given_pseudolegal
is_legal_given_pseudolegal(p, mov) ==
    \A new_pos \in {make_move(p, mov)} : ~is_check(new_pos, p.side_to_move)

\* ------------------------------------------------------------------
\* uci.rs: the `position` command, and the position the main thread holds
\* ------------------------------------------------------------------
VARIABLES
    uci_position,   \* the position of the main thread
    uci_output,     \* the line the last command wrote, << >> for none
    uci_panicked,   \* the last command panicked
    uci_before,     \* the position of the main thread before the last command
    uci_illegal,    \* the first token of the last command that was no legal move, << >> for none
    uci_ncmds

MaxUciCmds == 2
MaxUciMoves == 2
UciTokens ==
    {<< "e", "2", "e", "3" >>, << "e", "2", "e", "5" >>, << "e", "8", "d", "8" >>,
     << "e", "1", "g", "1" >>}
UciMoveLists == UNION {[1..n -> UciTokens] : n \in 0..MaxUciMoves}
UciFens == {FenPawn, FenCastle}

\* the `moves` loop of handle_position: lines 102-108
RECURSIVE handle_position_moves(_, _)
handle_position_moves(position, toks) ==
    IF toks = << >> \/ position.panicked THEN [position |-> position, err |-> << >>]
    ELSE IF from_uci(position, Head(toks)) = NoMove
    THEN [position |-> position, err |-> << "invalid move: ", Head(toks) >>]
    ELSE handle_position_moves(make_move(position, from_uci(position, Head(toks))), Tail(toks))

\* the legal moves a token is the UCI notation of
legal_moves_of(p, tok) ==
    {mov \in generate_moves(p.side_to_move, p) :
        as_uci(mov) = tok /\ is_legal_given_pseudolegal(p, mov)}

\* the first token that is no legal move in the position reached so far
RECURSIVE first_illegal(_, _)
first_illegal(p, toks) ==
    IF toks = << >> THEN << >>
    ELSE CHOOSE tok \in {IF legal = {} THEN Head(toks)
                         ELSE CHOOSE t \in {first_illegal(next, Tail(toks)) :
                                               next \in {make_move(p, mov) : mov \in legal}} : TRUE :
                         legal \in {legal_moves_of(p, Head(toks))}} : TRUE

UciInit ==
    /\ uci_position = Position_new
    /\ uci_output = << >>
    /\ uci_panicked = FALSE
    /\ uci_before = Position_new
    /\ uci_illegal = << >>
    /\ uci_ncmds = 0

\* handle_position for `position fen <fen> moves <toks>`
HandlePosition == \E fen \in UciFens, toks \in UciMoveLists :
    /\ ~uci_panicked
    /\ uci_ncmds < MaxUciCmds
    /\ uci_ncmds' = uci_ncmds + 1
    /\ uci_before' = uci_position
    /\ uci_illegal' = first_illegal(from_fen(fen), toks)
    /\ LET result == handle_position_moves(from_fen(fen), toks)
       IN IF result.position.panicked
          THEN /\ uci_panicked' = TRUE
               /\ uci_output' = << >>
               /\ UNCHANGED uci_position
          ELSE IF result.err = << >>
          THEN /\ uci_position' = result.position
               /\ uci_output' = << >>
               /\ UNCHANGED uci_panicked
          ELSE /\ uci_output' = << "invalid position command: " >> \o result.err
               /\ UNCHANGED <<uci_position, uci_panicked>>
    /\ UNCHANGED <<debug_assertions, pos, pos2, moves, gen_side, last_op, nops>>

\* ------------------------------------------------------------------
\* table.rs: the transposition table, a map from zobrist key to TableEntry
\* ------------------------------------------------------------------
VARIABLES
    table,      \* Table.map
    tbefore,    \* Table.map as it was before the last operation
    tlast       \* the last operation: its name, key, depth and value

TableEntry(key, best_move, depth, kind, value) ==
    [zobrist_key |-> key, best_move |-> best_move, depth |-> depth,
     node |-> [kind |-> kind, value |-> value]]

is_all(entry) == entry.node.kind = "All"

\* CHashMap::insert
map_insert(map, key, entry) ==
    [k \in DOMAIN map \cup {key} |-> IF k = key THEN entry ELSE map[k]]

record_pv(map, p, best_move, depth, value) ==
    map_insert(map, p.zobrist_hash, TableEntry(p.zobrist_hash, best_move, depth, "PV", value))

record_cut(map, p, best_move, depth, value) ==
    map_insert(map, p.zobrist_hash, TableEntry(p.zobrist_hash, best_move, depth, "Cut", value))

\* record_all with the depth test `>=` for `>`
record_all_keeps_equal_depth(map, p, depth, value) ==
    IF p.zobrist_hash \in DOMAIN map
       /\ (IF is_all(map[p.zobrist_hash]) THEN map[p.zobrist_hash].depth >= depth ELSE TRUE)
    THEN map
    ELSE map_insert(map, p.zobrist_hash, TableEntry(p.zobrist_hash, NoMove, depth, "All", value))

record_all(map, p, depth, value) ==
    IF p.zobrist_hash \in DOMAIN map
       /\ (IF is_all(map[p.zobrist_hash]) THEN map[p.zobrist_hash].depth > depth ELSE TRUE)
    THEN map
    ELSE map_insert(map, p.zobrist_hash, TableEntry(p.zobrist_hash, NoMove, depth, "All", value))

Table_new == [k \in {} |-> TableEntry({}, NoMove, 0, "PV", 0)]

MaxTableDepth == 2
TableValues == {0, 1}
TableMoves == {Move_quiet(E2, E3)}
TablePositions == {Position_new, [Position_new EXCEPT !.zobrist_hash = {SIDE_TO_MOVE_INDEX}]}

TableInit ==
    /\ table = Table_new
    /\ tbefore = Table_new
    /\ tlast = [op |-> "new", key |-> {}, depth |-> 0, value |-> 0]

TableStep(op, p, depth, value, map) ==
    /\ table' = map
    /\ tbefore' = table
    /\ tlast' = [op |-> op, key |-> p.zobrist_hash, depth |-> depth, value |-> value]

RecordPv == \E p \in TablePositions, mv \in TableMoves, depth \in 1..MaxTableDepth,
               value \in TableValues :
    TableStep("record_pv", p, depth, value, record_pv(table, p, mv, depth, value))
RecordCut == \E p \in TablePositions, mv \in TableMoves, depth \in 1..MaxTableDepth,
                value \in TableValues :
    TableStep("record_cut", p, depth, value, record_cut(table, p, mv, depth, value))
RecordAll == \E p \in TablePositions, depth \in 1..MaxTableDepth, value \in TableValues :
    TableStep("record_all", p, depth, value, record_all(table, p, depth, value))
TableClear ==
    /\ table' = Table_new
    /\ tbefore' = table
    /\ tlast' = [op |-> "clear", key |-> {}, depth |-> 0, value |-> 0]

\* ------------------------------------------------------------------
\* table.rs: get_pv, over a table filled with best moves for a position and for
\* the positions one and two moves after it
\* ------------------------------------------------------------------
VARIABLES
    pv,         \* the Vec<Move> of the last get_pv call, and whether the call panicked
    pv_depth    \* the depth argument of the last get_pv call, -1 before the first

\* table::query(pos).and_then(|e| e.best_move())
query_best_move(map, p) ==
    IF p.zobrist_hash \in DOMAIN map THEN map[p.zobrist_hash].best_move ELSE NoMove

RECURSIVE get_pv_loop(_, _, _, _, _)
get_pv_loop(map, p, pv_clone, line, n) ==
    IF n = 0 THEN [moves |-> line, panicked |-> FALSE]
    ELSE LET best_move == query_best_move(map, p)
         IN IF best_move = NoMove THEN [moves |-> line, panicked |-> FALSE]
            ELSE LET next == make_move(pv_clone, best_move)
                 IN IF next.panicked
                    THEN [moves |-> Append(line, best_move), panicked |-> TRUE]
                    ELSE get_pv_loop(map, p, next, Append(line, best_move), n - 1)

get_pv(map, p, depth) == get_pv_loop(map, p, p, <<>>, depth)

\* the position after make_move of each move of a line
RECURSIVE play(_, _)
play(p, line) == IF line = <<>> THEN p ELSE play(make_move(p, Head(line)), Tail(line))

MaxPvDepth == 2
PvFenInputs == {FenPawn, FenClocks}
PvMoveInputs == {Move_null, Move_quiet(E2, E3), Move_quiet(E8, D8), Move_quiet(E1, E2)}
PvLines == {<<>>, <<Move_null>>, <<Move_quiet(E2, E3)>>, <<Move_quiet(E8, D8)>>,
            <<Move_quiet(E2, E3), Move_quiet(E8, D8)>>,
            <<Move_quiet(E8, D8), Move_quiet(E1, E2)>>}

PvInit ==
    /\ pv = [moves |-> <<>>, panicked |-> FALSE]
    /\ pv_depth = -1

PvFromFen == \E fen \in PvFenInputs :
    /\ last_op = "new"
    /\ pos' = from_fen(fen)
    /\ last_op' = "from_fen"
    /\ UNCHANGED <<debug_assertions, pos2, moves, gen_side, nops, table, tbefore, tlast, pv, pv_depth>>

\* the search records a best move for a position of the tree below pos: a move
\* of the side to move there, which make_move accepts
PvRecordPv == \E line \in PvLines, mv \in PvMoveInputs :
    LET p == play(pos, line)
    IN /\ last_op # "new"
       /\ pv_depth = -1
       /\ ~p.panicked
       /\ moves_own_piece(p, mv)
       /\ ~make_move(p, mv).panicked
       /\ table' = record_pv(table, p, mv, 1, 0)
       /\ UNCHANGED <<debug_assertions, pos, pos2, moves, gen_side, last_op, nops, tbefore, tlast,
                      pv, pv_depth>>

\* the search records a position of the tree as an All node, without a best move
PvRecordAll == \E line \in PvLines :
    LET p == play(pos, line)
    IN /\ last_op # "new"
       /\ pv_depth = -1
       /\ ~p.panicked
       /\ table' = record_all(table, p, 1, 0)
       /\ UNCHANGED <<debug_assertions, pos, pos2, moves, gen_side, last_op, nops, tbefore, tlast,
                      pv, pv_depth>>

GetPv == \E depth \in 0..MaxPvDepth :
    /\ last_op # "new"
    /\ pv' = get_pv(table, pos, depth)
    /\ pv_depth' = depth
    /\ UNCHANGED <<debug_assertions, pos, pos2, moves, gen_side, last_op, nops, table, tbefore, tlast>>

\* ------------------------------------------------------------------
\* eval/value.rs: a Value is its i16
\* ------------------------------------------------------------------
VARIABLES
    val_op,     \* the last Value operation
    val_a,      \* its first operand (the ply of mate_in and mated_in)
    val_b,      \* its second operand
    val_r       \* its result, and whether it panicked

I16_MIN == -32768
I16_MAX == 32767
VALUE_MATED == -16383
VALUE_MATE == 16383
MATE_DISTANCE_MAX == 50

\* i16 arithmetic without overflow checks wraps around
i16_overflows(x) == x < I16_MIN \/ x > I16_MAX
i16_wrap(x) == ((x - I16_MIN) % 65536) + I16_MIN

Value_new(evaluation) == evaluation

\* debug_assert!(ply < MATE_DISTANCE_MAX)
mate_in_panics(ply) ==
    debug_assertions /\ (~(ply < MATE_DISTANCE_MAX) \/ i16_overflows(VALUE_MATE + MATE_DISTANCE_MAX - ply))
mate_in_flipped(ply) == i16_wrap(VALUE_MATE - MATE_DISTANCE_MAX + ply)
mate_in(ply) == i16_wrap(VALUE_MATE + MATE_DISTANCE_MAX - ply)
mated_in_panics(ply) ==
    debug_assertions /\ (~(ply < MATE_DISTANCE_MAX) \/ i16_overflows(VALUE_MATED - MATE_DISTANCE_MAX + ply))
mated_in(ply) == i16_wrap(VALUE_MATED - MATE_DISTANCE_MAX + ply)

\* UnpackedValue; `as u16` of a negative distance wraps
unpack(v) ==
    IF v > VALUE_MATE THEN [tag |-> "MateIn", n |-> (VALUE_MATE + MATE_DISTANCE_MAX - v) % 65536]
    ELSE IF v < VALUE_MATED
    THEN [tag |-> "MatedIn", n |-> (v - VALUE_MATED + MATE_DISTANCE_MAX) % 65536]
    ELSE [tag |-> "Value", n |-> v]

\* (value + 1) as i16
u16_as_i16(x) == i16_wrap(x % 65536)
step_panics(v) ==
    LET u == unpack(v)
    IN IF u.tag = "MateIn" THEN (debug_assertions /\ u.n = 65535) \/ mate_in_panics(u16_as_i16(u.n + 1))
       ELSE IF u.tag = "MatedIn"
       THEN (debug_assertions /\ u.n = 65535) \/ mated_in_panics(u16_as_i16(u.n + 1))
       ELSE FALSE
step(v) ==
    LET u == unpack(v)
    IN IF u.tag = "MateIn" THEN mate_in(u16_as_i16(u.n + 1))
       ELSE IF u.tag = "MatedIn" THEN mated_in(u16_as_i16(u.n + 1))
       ELSE v

\* i16::saturating_neg
neg(v) == IF v = I16_MIN THEN I16_MAX ELSE -v

\* Value::add: the debug_assert on self, then self.0 + other.0 in i16
add_panics(self, other) ==
    debug_assertions /\ (~(self > VALUE_MATED /\ self < VALUE_MATE) \/ i16_overflows(self + other))
add(self, other) ==
    LET next == i16_wrap(self + other)
    IN IF next <= VALUE_MATED \/ next >= VALUE_MATE
       THEN (IF next <= VALUE_MATED THEN VALUE_MATED + 1 ELSE VALUE_MATE - 1)
       ELSE next

\* ops::Add<i16>, ops::Sub<Value>, ops::Sub<i16>
add_i16_panics(self, rhs) ==
    (debug_assertions /\ ~(rhs > VALUE_MATED /\ rhs < VALUE_MATE)) \/ add_panics(self, rhs)
add_i16(self, rhs) == add(self, rhs)
sub_panics(self, rhs) == add_panics(self, neg(rhs))
sub(self, rhs) == add(self, neg(rhs))
sub_i16_panics(self, rhs) ==
    \/ debug_assertions /\ ~(rhs > VALUE_MATED /\ rhs < VALUE_MATE)
    \/ debug_assertions /\ rhs = I16_MIN
    \/ add_panics(self, i16_wrap(-rhs))
sub_i16(self, rhs) == add(self, i16_wrap(-rhs))

\* the centipawn scores, and the operands the operations are applied to
is_centipawn(v) == v > VALUE_MATED /\ v < VALUE_MATE
MaxPly == 50
ValueLeft == {VALUE_MATED + 1, VALUE_MATED + 2, -100, -1, 0, 1, 100, VALUE_MATE - 2, VALUE_MATE - 1}
ValueRight ==
    {I16_MIN, I16_MIN + 1, mated_in(0), mated_in(MATE_DISTANCE_MAX - 1), VALUE_MATED, VALUE_MATED + 1, -3, -1, 0,
     1, 3, VALUE_MATE - 1, VALUE_MATE, mate_in(MATE_DISTANCE_MAX - 1), mate_in(0), I16_MAX}

ValueInit ==
    /\ val_op = "none"
    /\ val_a = 0
    /\ val_b = 0
    /\ val_r = [value |-> 0, panicked |-> FALSE]

ValueCall(op, a, b, value, panics) ==
    /\ val_op' = op
    /\ val_a' = a
    /\ val_b' = b
    /\ val_r' = [value |-> value, panicked |-> panics]

ValueAdd == \E a \in ValueLeft, b \in ValueRight :
    ValueCall("add", a, b, add(a, b), add_panics(a, b))
ValueAddI16 == \E a \in ValueLeft, b \in ValueRight :
    ValueCall("add_i16", a, b, add_i16(a, b), add_i16_panics(a, b))
ValueSub == \E a \in ValueLeft, b \in ValueRight :
    ValueCall("sub", a, b, sub(a, b), sub_panics(a, b))
ValueSubI16 == \E a \in ValueLeft, b \in ValueRight :
    ValueCall("sub_i16", a, b, sub_i16(a, b), sub_i16_panics(a, b))
ValueMateIn == \E n \in 0..MaxPly :
    ValueCall("mate_in", n, 0, mate_in(n), mate_in_panics(n))
ValueMatedIn == \E n \in 0..MaxPly :
    ValueCall("mated_in", n, 0, mated_in(n), mated_in_panics(n))
\* -v for the mate value the last call built
ValueNeg ==
    /\ val_op \in {"mate_in", "mated_in"}
    /\ ~val_r.panicked
    /\ ValueCall(IF val_op = "mate_in" THEN "neg_mate_in" ELSE "neg_mated_in",
                 val_a, 0, neg(val_r.value), FALSE)

\* ------------------------------------------------------------------
\* search.rs: search(), the iterative-deepening loop, and the Searcher it builds
\* for every depth. The tree walk of alpha_beta and quiesce is reduced to its
\* effects on the Searcher: a can_continue_search check, and a node counted by
\* quiesce right after a check that allowed it.
\* ------------------------------------------------------------------
VARIABLES
    s_pc,               \* where search() stands
    options,            \* the SearchOptions handed to search()
    s_depth,            \* search(): the loop variable depth
    now,                \* the clock read by Instant::now()
    start_time,         \* search(): start_time
    node_count,         \* search(): node_count
    subsearch_opts,     \* the SearchOptions of the current iteration
    searcher,           \* the Searcher of the current iteration
    hard_stop,          \* the AtomicBool behind options.hard_stop
    may_evaluate,       \* the walk stands right after a check that returned true
    last_check,         \* result of the last can_continue_search of this search() call
    limit_fired,        \* a time or node limit has fired in this search() call
    fired_before_check  \* limit_fired as it was when the last check was made

NoLimit == -1
MaxTime == 3
MaxNodes == 2
MaxSearchDepth == 2

saturating_sub(a, b) == IF a > b THEN a - b ELSE 0
Option_map_saturating_sub(limit, b) == IF limit = NoLimit THEN NoLimit ELSE saturating_sub(limit, b)

Searcher_new(opts, instant) ==
    [nodes_evaluated |-> 0, search_start_time |-> instant, options |-> opts]

time_limit_fires(sr, instant) ==
    sr.options.time_limit # NoLimit
    /\ saturating_sub(instant, sr.search_start_time) > sr.options.time_limit
node_limit_fires(sr) ==
    sr.options.node_limit # NoLimit /\ sr.nodes_evaluated > sr.options.node_limit

can_continue_search(sr, instant, stop) ==
    IF time_limit_fires(sr, instant) THEN FALSE
    ELSE IF node_limit_fires(sr) THEN FALSE
    ELSE IF stop THEN FALSE
    ELSE TRUE

SearchInit ==
    /\ s_pc = "idle"
    /\ options = [time_limit |-> NoLimit, node_limit |-> NoLimit, depth |-> 1]
    /\ s_depth = 1
    /\ now = 0
    /\ start_time = 0
    /\ node_count = 0
    /\ subsearch_opts = [time_limit |-> NoLimit, node_limit |-> NoLimit, depth |-> 1]
    /\ searcher = Searcher_new([time_limit |-> NoLimit, node_limit |-> NoLimit, depth |-> 1], 0)
    /\ hard_stop = FALSE
    /\ may_evaluate = FALSE
    /\ last_check = "none"
    /\ limit_fired = FALSE
    /\ fired_before_check = FALSE

\* a can_continue_search call of the current Searcher, with its bookkeeping
Check(result) ==
    /\ result = can_continue_search(searcher, now, hard_stop)
    /\ last_check' = (IF result THEN "true" ELSE "false")
    /\ fired_before_check' = limit_fired
    /\ limit_fired' = (limit_fired \/ time_limit_fires(searcher, now) \/ node_limit_fires(searcher))

\* search(pos, options): lines 398-404
SearchCall == \E time_limit \in {NoLimit, 1}, node_limit \in {NoLimit, 0, 1}, d \in 1..MaxSearchDepth :
    /\ s_pc = "idle"
    /\ last_check = "none"
    /\ options' = [time_limit |-> time_limit, node_limit |-> node_limit, depth |-> d]
    /\ s_depth' = 1
    /\ start_time' = now
    /\ node_count' = 0
    /\ s_pc' = "loop"
    /\ UNCHANGED <<now, subsearch_opts, searcher, hard_stop, may_evaluate, last_check,
                   limit_fired, fired_before_check>>

\* the head of `for depth in 1..=options.depth`: lines 405-422
LoopHead ==
    /\ s_pc = "loop"
    /\ LET time_since_start == now - start_time
       IN IF s_depth > options.depth
             \/ (options.time_limit # NoLimit /\ options.time_limit < time_since_start)
          THEN s_pc' = "report" /\ UNCHANGED subsearch_opts
          ELSE /\ subsearch_opts' =
                    [time_limit |-> Option_map_saturating_sub(options.time_limit, time_since_start),
                     depth |-> s_depth,
                     node_limit |-> Option_map_saturating_sub(options.node_limit, node_count)]
               /\ s_pc' = "new"
    /\ UNCHANGED <<options, s_depth, now, start_time, node_count, searcher, hard_stop,
                   may_evaluate, last_check, limit_fired, fired_before_check>>

\* Searcher::new and the check of line 425
NewSearcher ==
    /\ s_pc = "new"
    /\ searcher' = Searcher_new(subsearch_opts, now)
    /\ s_pc' = "first_check"
    /\ UNCHANGED <<options, s_depth, now, start_time, node_count, subsearch_opts, hard_stop,
                   may_evaluate, last_check, limit_fired, fired_before_check>>

FirstCheck == \E result \in BOOLEAN :
    /\ s_pc = "first_check"
    /\ Check(result)
    /\ s_pc' = (IF result THEN "walk" ELSE "report")
    /\ may_evaluate' = FALSE
    /\ UNCHANGED <<options, s_depth, now, start_time, node_count, subsearch_opts, searcher,
                   hard_stop>>

\* a check at the entry of alpha_beta or in the loop of quiesce
WalkCheck == \E result \in BOOLEAN :
    /\ s_pc = "walk"
    /\ Check(result)
    /\ may_evaluate' = result
    /\ UNCHANGED <<s_pc, options, s_depth, now, start_time, node_count, subsearch_opts, searcher,
                   hard_stop>>

\* quiesce: self.nodes_evaluated += 1
Quiesce ==
    /\ s_pc = "walk"
    /\ may_evaluate
    /\ searcher.nodes_evaluated < MaxNodes
    /\ searcher' = [searcher EXCEPT !.nodes_evaluated = @ + 1]
    /\ may_evaluate' = FALSE
    /\ UNCHANGED <<s_pc, options, s_depth, now, start_time, node_count, subsearch_opts, hard_stop,
                   last_check, limit_fired, fired_before_check>>

\* the check that ends Searcher::search, and the rest of the loop body: lines 73-75, 430-459
EndIteration == \E result \in BOOLEAN :
    /\ s_pc = "walk"
    /\ Check(result)
    /\ node_count' = (IF result THEN node_count + searcher.nodes_evaluated ELSE node_count)
    /\ s_depth' = s_depth + 1
    /\ s_pc' = "loop"
    /\ may_evaluate' = FALSE
    /\ UNCHANGED <<options, now, start_time, subsearch_opts, searcher, hard_stop>>

\* lines 461-470: search() returns
Report ==
    /\ s_pc = "report"
    /\ s_pc' = "idle"
    /\ UNCHANGED <<options, s_depth, now, start_time, node_count, subsearch_opts, searcher,
                   hard_stop, may_evaluate, last_check, limit_fired, fired_before_check>>

Tick ==
    /\ now < MaxTime
    /\ now' = now + 1
    /\ UNCHANGED <<s_pc, options, s_depth, start_time, node_count, subsearch_opts, searcher,
                   hard_stop, may_evaluate, last_check, limit_fired, fired_before_check>>

\* WorkerThread::stop from the main thread
SetHardStop ==
    /\ ~hard_stop
    /\ hard_stop' = TRUE
    /\ UNCHANGED <<s_pc, options, s_depth, now, start_time, node_count, subsearch_opts, searcher,
                   may_evaluate, last_check, limit_fired, fired_before_check>>

\* ------------------------------------------------------------------
\* search.rs: what search() keeps of every iteration and what it returns. The
\* move and score an iteration ends with are inputs; iters and iter_cut record
\* the iterations for the properties.
\* ------------------------------------------------------------------
VARIABLES
    current_best_move,  \* search(): current_best_move
    current_best_score, \* search(): current_best_score
    s_result,           \* << >>, or the SearchResult search() returned
    iters,              \* the iterations begun so far: depth, cut short or not, move and score
    iter_cut            \* a can_continue_search of the current iteration returned false

IterCandidates ==
    {[best_move |-> Move_quiet(E2, E3), best_score |-> Value_new(5)],
     [best_move |-> Move_quiet(E1, E2), best_score |-> Value_new(-3)]}

IterInit ==
    /\ current_best_move = Move_null
    /\ current_best_score = mated_in(0)
    /\ s_result = << >>
    /\ iters = << >>
    /\ iter_cut = FALSE

\* Searcher::search, lines 73-81: None after a check that failed, else the move and the score
search_returns_unchecked(ok, cand) == << cand >>
search_returns(ok, cand) == IF ok THEN << cand >> ELSE << >>

\* lines 401-402
IterSearchCall ==
    /\ SearchCall
    /\ current_best_move' = Move_null
    /\ current_best_score' = mated_in(0)
    /\ iters' = << >>
    /\ iter_cut' = FALSE
    /\ s_result' = << >>

IterKeep == UNCHANGED <<current_best_move, current_best_score, s_result, iters, iter_cut>>

IterLoopHead == LoopHead /\ IterKeep

IterNewSearcher ==
    /\ NewSearcher
    /\ iter_cut' = FALSE
    /\ UNCHANGED <<current_best_move, current_best_score, s_result, iters>>

\* line 425-427: `break` leaves the iteration without a result
IterFirstCheck ==
    /\ FirstCheck
    /\ iter_cut' = (last_check' = "false")
    /\ iters' = (IF last_check' = "false"
                 THEN Append(iters, [depth |-> s_depth, cut |-> TRUE, returned |-> << >>])
                 ELSE iters)
    /\ UNCHANGED <<current_best_move, current_best_score, s_result>>

IterWalkCheck ==
    /\ WalkCheck
    /\ iter_cut' = (iter_cut \/ last_check' = "false")
    /\ UNCHANGED <<current_best_move, current_best_score, s_result, iters>>

IterQuiesce == Quiesce /\ IterKeep

\* lines 430-437: `if let Some((best_move, best_score)) = searcher.search(pos, depth)`
IterEnd == \E cand \in IterCandidates :
    /\ EndIteration
    /\ \E returned \in {search_returns(last_check' = "true", cand)} :
        /\ current_best_move' = (IF returned # << >> THEN returned[1].best_move
                                 ELSE current_best_move)
        /\ current_best_score' = (IF returned # << >> THEN returned[1].best_score
                                  ELSE current_best_score)
        /\ iters' = Append(iters, [depth |-> s_depth, cut |-> iter_cut \/ last_check' = "false",
                                   returned |-> << cand >>])
    /\ iter_cut' = FALSE
    /\ UNCHANGED s_result

\* lines 465-469
IterReport ==
    /\ Report
    /\ s_result' = << [best_move |-> current_best_move, best_score |-> current_best_score] >>
    /\ UNCHANGED <<current_best_move, current_best_score, iters, iter_cut>>

IterTick == Tick /\ IterKeep
IterSetHardStop == SetHardStop /\ IterKeep

\* ------------------------------------------------------------------
\* search.rs: Searcher::search, alpha_beta, quiesce and consider_transposition,
\* walked over a small game tree one call frame at a time. Move generation,
\* the legality test and evaluate are inputs: the moves and captures of every
\* position of the tree and its static evaluation. The stop flag is stored
\* and the table is cleared by other threads (threads.rs WorkerThread::stop,
\* uci.rs handle_ucinewgame) between any two steps of the walk.
\* ------------------------------------------------------------------
VARIABLES
    ab_pc,          \* Searcher::search: "idle", "walk", "post" (line 73), "query" (line 77), "done"
    ab_root,        \* the position Searcher::search was called with
    ab_stack,       \* the call frames of alpha_beta and quiesce, innermost last
    ab_ret,         \* the value the last finished call returned
    ab_searcher,    \* the Searcher
    ab_stop,        \* the AtomicBool behind options.hard_stop
    ab_eval,        \* evaluate(pos) of every position of the tree
    ab_stand_pat,   \* empty, or the last quiesce call: its position and the stand_pat it compared
    ab_result,      \* what Searcher::search returned: "none" before, "Some", "None" or "panic"
    ab_cut_keys,    \* keys of the entries recorded by a call that took a value from a
                    \* call cut short
    ab_clears       \* number of times the table was cleared

\* the game tree: positions 0..5. White is to move in 0, 3 and 4, Black in 1, 2
\* and 5; 2 and 4 are stalemates, in 5 Black is checkmated
AbNodes == 0..5
AbRoots == {0, 3}
AbMoveA == Move_quiet(E2, E3)
AbMoveB == Move_quiet(E1, E2)
AbMoveC == Move_quiet(E8, D8)
AbMoveD == Move_capture(D4, E3)
AbMoveE == Move_capture(E2, E3)
\* the legal moves of a position in the order order_moves puts them, each with
\* the position it leads to
AbLegal ==
    [n \in AbNodes |->
        IF n = 0 THEN << <<AbMoveA, 1>>, <<AbMoveB, 2>> >>
        ELSE IF n = 1 THEN << <<AbMoveD, 3>>, <<AbMoveC, 4>> >>
        ELSE IF n = 3 THEN << <<AbMoveE, 5>> >>
        ELSE << >>]
AbCaptures(n) == SelectSeq(AbLegal[n], LAMBDA mc : is_capture(mc[1]))
AbIsCheck(n) == n = 5
AbSide(n) == IF n \in {0, 3, 4} THEN White ELSE Black
AbPosition(n) == [zobrist_hash |-> {n}]
\* pos.is_legal(mov)
AbIsLegal(n, mov) == \E i \in 1..Len(AbLegal[n]) : AbLegal[n][i][1] = mov
AbChild(n, mov) == AbLegal[n][CHOOSE i \in 1..Len(AbLegal[n]) : AbLegal[n][i][1] = mov][2]

MaxAbDepth == 2
MaxAbClears == 1
\* evaluate: a side without moves is mated or stalemated, every other position
\* has a centipawn score
AbEvaluate(n, centipawns) ==
    IF AbLegal[n] = << >>
    THEN (IF AbIsCheck(n) THEN (IF AbSide(n) = White THEN mated_in(0) ELSE mate_in(0))
          ELSE Value_new(0))
    ELSE Value_new(centipawns)
AbEvals == {[n \in AbNodes |-> AbEvaluate(n, 0)],
            [n \in AbNodes |-> AbEvaluate(n, IF n = 1 THEN 30 ELSE IF n = 3 THEN -50 ELSE 5)]}

Frame(fn, n, alpha, beta, depth) ==
    [fn |-> fn, pc |-> "entry", node |-> n, alpha |-> alpha, beta |-> beta, depth |-> depth,
     hash_move |-> NoMove, improved_alpha |-> FALSE, moves |-> << >>, cut |-> FALSE]

AbTop == ab_stack[Len(ab_stack)]
AbSetTop(f) == [ab_stack EXCEPT ![Len(ab_stack)] = f]
\* `return value` of the innermost call
AbReturn(value, cut) ==
    /\ ab_stack' = SubSeq(ab_stack, 1, Len(ab_stack) - 1)
    /\ ab_ret' = [value |-> value, cut |-> cut]
    /\ ab_pc' = (IF Len(ab_stack) = 1 THEN "post" ELSE ab_pc)
AbCall(caller, callee) ==
    /\ ab_stack' = Append(AbSetTop(caller), callee)
    /\ UNCHANGED <<ab_ret, ab_pc>>
AbGoto(f) ==
    /\ ab_stack' = AbSetTop(f)
    /\ UNCHANGED <<ab_ret, ab_pc>>
\* a table write of the innermost call
AbRecord(map, f, written) ==
    /\ table' = map
    /\ ab_cut_keys' = (IF ~written THEN ab_cut_keys
                       ELSE IF f.cut THEN ab_cut_keys \cup {{f.node}}
                       ELSE ab_cut_keys \ {{f.node}})
AbNoRecord == UNCHANGED <<table, ab_cut_keys>>
AbCanContinue == can_continue_search(ab_searcher, 0, ab_stop)

\* the searcher before the first call of search
AbIdle ==
    /\ ab_pc = "idle"
    /\ ab_root = 0
    /\ ab_stack = << >>
    /\ ab_ret = [value |-> 0, cut |-> FALSE]
    /\ ab_searcher = Searcher_new([time_limit |-> NoLimit, node_limit |-> NoLimit, depth |-> 1], 0)
    /\ ab_stop = FALSE
    /\ ab_result = "none"
    /\ ab_cut_keys = {}
    /\ ab_clears = 0

AbInit ==
    /\ AbIdle
    /\ ab_eval \in AbEvals
    /\ ab_stand_pat = << >>

\* the searcher of a run that never searches
AbUnused ==
    /\ AbIdle
    /\ ab_eval = [n \in AbNodes |-> AbEvaluate(n, 0)]
    /\ ab_stand_pat = << >>

\* Searcher::new, and Searcher::search up to its call of alpha_beta: lines 60-71
AbSearch == \E root \in AbRoots, depth \in 1..MaxAbDepth, node_limit \in {NoLimit, 0, 2} :
    /\ ab_pc \in {"idle", "done"}
    /\ ab_result # "panic"
    /\ ab_searcher' = Searcher_new([time_limit |-> NoLimit, node_limit |-> node_limit,
                                    depth |-> depth], 0)
    /\ ab_root' = root
    /\ ab_stack' = << Frame("alpha_beta", root, mated_in(0), mate_in(0), depth) >>
    /\ ab_pc' = "walk"
    /\ ab_result' = "none"
    /\ UNCHANGED <<ab_ret, ab_stop, ab_eval, ab_stand_pat, ab_clears, table, tbefore, tlast,
                  ab_cut_keys>>

\* alpha_beta, lines 88-94
AbEntry ==
    /\ ab_pc = "walk" /\ AbTop.fn = "alpha_beta" /\ AbTop.pc = "entry"
    /\ IF ~AbCanContinue THEN AbReturn(AbTop.alpha, TRUE)
       ELSE IF AbTop.depth = 0 THEN AbGoto([AbTop EXCEPT !.fn = "quiesce"])
       ELSE AbGoto([AbTop EXCEPT !.pc = "transposition"])
    /\ AbNoRecord
    /\ UNCHANGED <<ab_root, ab_searcher, ab_stop, ab_eval, ab_stand_pat, ab_result, ab_clears,
                  tbefore, tlast>>

\* consider_transposition and the legality test of the hash move: lines 98-109, 257-333
AbTransposition ==
    /\ ab_pc = "walk" /\ AbTop.fn = "alpha_beta" /\ AbTop.pc = "transposition"
    /\ LET f == AbTop
           key == AbPosition(f.node).zobrist_hash
           hit == key \in DOMAIN table
           entry == table[key]
           usable == hit /\ entry.depth >= f.depth
                         /\ (entry.best_move = NoMove \/ AbIsLegal(f.node, entry.best_move))
           kind == entry.node.kind
           value == entry.node.value
           from_cut == key \in ab_cut_keys
           legal_hash_move == IF hit /\ entry.best_move # NoMove
                                     /\ AbIsLegal(f.node, entry.best_move)
                              THEN entry.best_move ELSE NoMove
           next_pc == IF legal_hash_move # NoMove THEN "hash" ELSE "generate"
           g == [f EXCEPT !.hash_move = legal_hash_move, !.pc = next_pc]
       IN IF usable /\ kind = "PV" THEN AbReturn(step(value), from_cut)
          ELSE IF usable /\ kind = "Cut" /\ value >= f.beta THEN AbReturn(step(value), from_cut)
          ELSE IF usable /\ kind = "Cut" /\ value >= f.alpha
          THEN AbGoto([g EXCEPT !.alpha = value, !.cut = @ \/ from_cut])
          ELSE IF usable /\ kind = "All" /\ value <= f.alpha
          THEN AbReturn(step(f.alpha), from_cut)
          ELSE AbGoto(g)
    /\ AbNoRecord
    /\ UNCHANGED <<ab_root, ab_searcher, ab_stop, ab_eval, ab_stand_pat, ab_result, ab_clears,
                  tbefore, tlast>>

\* the recursive call on the hash move: lines 113-116
AbHash ==
    /\ ab_pc = "walk" /\ AbTop.fn = "alpha_beta" /\ AbTop.pc = "hash"
    /\ AbCall([AbTop EXCEPT !.pc = "hash_ret"],
              Frame("alpha_beta", AbChild(AbTop.node, AbTop.hash_move),
                    neg(AbTop.beta), neg(AbTop.alpha), AbTop.depth - 1))
    /\ AbNoRecord
    /\ UNCHANGED <<ab_root, ab_searcher, ab_stop, ab_eval, ab_stand_pat, ab_result, ab_clears,
                  tbefore, tlast>>

\* what alpha_beta does with the value of a move: lines 116-126 and 156-166
AbValueOf(mov, next_pc, rest) ==
    LET f == [AbTop EXCEPT !.cut = @ \/ ab_ret.cut]
        p == AbPosition(f.node)
        value == neg(ab_ret.value)
    IN IF value >= f.beta
       THEN /\ AbRecord(record_cut(table, p, mov, f.depth, value), f, TRUE)
            /\ AbReturn(step(f.beta), f.cut)
       ELSE IF value > f.alpha
       THEN /\ AbRecord(record_pv(table, p, mov, f.depth, value), f, TRUE)
            /\ AbGoto([f EXCEPT !.improved_alpha = TRUE, !.alpha = value, !.pc = next_pc,
                                !.moves = rest])
       ELSE /\ AbNoRecord
            /\ AbGoto([f EXCEPT !.pc = next_pc, !.moves = rest])

AbHashRet ==
    /\ ab_pc = "walk" /\ AbTop.fn = "alpha_beta" /\ AbTop.pc = "hash_ret"
    /\ AbValueOf(AbTop.hash_move, "generate", << >>)
    /\ UNCHANGED <<ab_root, ab_searcher, ab_stop, ab_eval, ab_stand_pat, ab_result, ab_clears,
                  tbefore, tlast>>

\* move generation, and the position without legal moves: lines 133-152
AbGenerate ==
    /\ ab_pc = "walk" /\ AbTop.fn = "alpha_beta" /\ AbTop.pc = "generate"
    /\ LET f == AbTop
           value == IF AbIsCheck(f.node) THEN mated_in(0) ELSE Value_new(0)
       IN IF AbLegal[f.node] = << >>
          THEN /\ AbRecord(record_pv(table, AbPosition(f.node), Move_null, f.depth, value),
                           [f EXCEPT !.cut = FALSE], TRUE)
               /\ AbReturn(step(value), FALSE)
          ELSE /\ AbNoRecord
               /\ AbGoto([f EXCEPT !.pc = "loop", !.moves = AbLegal[f.node]])
    /\ UNCHANGED <<ab_root, ab_searcher, ab_stop, ab_eval, ab_stand_pat, ab_result, ab_clears,
                  tbefore, tlast>>

\* `for mov in moves`: the recursive call, and the end of the loop: lines 153-156, 169-173
AbLoop ==
    /\ ab_pc = "walk" /\ AbTop.fn = "alpha_beta" /\ AbTop.pc = "loop"
    /\ LET f == AbTop
           key == AbPosition(f.node).zobrist_hash
           map == record_all(table, AbPosition(f.node), f.depth, f.alpha)
       IN IF f.moves = << >>
          THEN /\ IF ~f.improved_alpha
                  THEN AbRecord(map, f, map[key] = TableEntry(key, NoMove, f.depth, "All", f.alpha))
                  ELSE AbNoRecord
               /\ AbReturn(step(f.alpha), f.cut)
          ELSE /\ AbNoRecord
               /\ AbCall([f EXCEPT !.pc = "loop_ret"],
                         Frame("alpha_beta", Head(f.moves)[2], neg(f.beta), neg(f.alpha),
                               f.depth - 1))
    /\ UNCHANGED <<ab_root, ab_searcher, ab_stop, ab_eval, ab_stand_pat, ab_result, ab_clears,
                  tbefore, tlast>>

AbLoopRet ==
    /\ ab_pc = "walk" /\ AbTop.fn = "alpha_beta" /\ AbTop.pc = "loop_ret"
    /\ AbValueOf(Head(AbTop.moves)[1], "loop", Tail(AbTop.moves))
    /\ UNCHANGED <<ab_root, ab_searcher, ab_stop, ab_eval, ab_stand_pat, ab_result, ab_clears,
                  tbefore, tlast>>

\* quiesce up to its loop: lines 185-214
AbQuiesceEntry ==
    /\ ab_pc = "walk" /\ AbTop.fn = "quiesce" /\ AbTop.pc = "entry"
    /\ ab_searcher' = [ab_searcher EXCEPT !.nodes_evaluated = @ + 1]
    /\ LET f == AbTop
           stand_pat == ab_eval[f.node]
           alpha == IF f.alpha < stand_pat THEN stand_pat ELSE f.alpha
       IN IF stand_pat >= f.beta THEN AbReturn(f.beta, FALSE)
          ELSE IF AbCaptures(f.node) = << >>
          THEN AbReturn(IF AbSide(f.node) = Black THEN neg(stand_pat) ELSE stand_pat, FALSE)
          ELSE AbGoto([f EXCEPT !.alpha = alpha, !.pc = "loop", !.moves = AbCaptures(f.node)])
    /\ ab_stand_pat' = <<[node |-> AbTop.node, value |-> ab_eval[AbTop.node]]>>
    /\ AbNoRecord
    /\ UNCHANGED <<ab_root, ab_stop, ab_eval, ab_result, ab_clears, tbefore, tlast>>

\* `for capture in moves`: lines 216-223, 232
AbQuiesceLoop ==
    /\ ab_pc = "walk" /\ AbTop.fn = "quiesce" /\ AbTop.pc = "loop"
    /\ LET f == AbTop
       IN IF f.moves = << >> THEN AbReturn(f.alpha, f.cut)
          ELSE IF ~AbCanContinue THEN AbReturn(f.alpha, TRUE)
          ELSE AbCall([f EXCEPT !.pc = "loop_ret"],
                      Frame("quiesce", Head(f.moves)[2], neg(f.beta), neg(f.alpha), 0))
    /\ AbNoRecord
    /\ UNCHANGED <<ab_root, ab_searcher, ab_stop, ab_eval, ab_stand_pat, ab_result, ab_clears,
                  tbefore, tlast>>

\* lines 223-229
AbQuiesceRet ==
    /\ ab_pc = "walk" /\ AbTop.fn = "quiesce" /\ AbTop.pc = "loop_ret"
    /\ LET f == [AbTop EXCEPT !.cut = @ \/ ab_ret.cut]
           stand_pat == neg(ab_ret.value)
       IN IF stand_pat >= f.beta THEN AbReturn(f.beta, f.cut)
          ELSE AbGoto([f EXCEPT !.alpha = IF stand_pat >= f.alpha THEN stand_pat ELSE f.alpha,
                                !.pc = "loop", !.moves = Tail(f.moves)])
    /\ AbNoRecord
    /\ UNCHANGED <<ab_root, ab_searcher, ab_stop, ab_eval, ab_stand_pat, ab_result, ab_clears,
                  tbefore, tlast>>

\* Searcher::search after alpha_beta has returned: lines 73-75
AbPost ==
    /\ ab_pc = "post"
    /\ IF ~AbCanContinue THEN ab_pc' = "done" /\ ab_result' = "None"
       ELSE ab_pc' = "query" /\ UNCHANGED ab_result
    /\ AbNoRecord
    /\ UNCHANGED <<ab_root, ab_stack, ab_ret, ab_searcher, ab_stop, ab_eval, ab_stand_pat,
                  ab_clears, tbefore, tlast>>

\* lines 77-81: the two expect calls
AbQuery ==
    /\ ab_pc = "query"
    /\ ab_pc' = "done"
    /\ ab_result' = (IF query_best_move(table, AbPosition(ab_root)) = NoMove
                     THEN "panic" ELSE "Some")
    /\ AbNoRecord
    /\ UNCHANGED <<ab_root, ab_stack, ab_ret, ab_searcher, ab_stop, ab_eval, ab_stand_pat,
                  ab_clears, tbefore, tlast>>

\* WorkerThread::stop, from the main thread
AbSetHardStop ==
    /\ ~ab_stop
    /\ ab_pc # "idle"
    /\ ab_stop' = TRUE
    /\ AbNoRecord
    /\ UNCHANGED <<ab_root, ab_pc, ab_stack, ab_ret, ab_searcher, ab_eval, ab_stand_pat,
                  ab_result, ab_clears,
                   tbefore, tlast>>

\* worker_thread_loop: stop_flag.store(false) after the search
AbResetStop ==
    /\ ab_stop
    /\ ab_pc = "done"
    /\ ab_stop' = FALSE
    /\ AbNoRecord
    /\ UNCHANGED <<ab_root, ab_pc, ab_stack, ab_ret, ab_searcher, ab_eval, ab_stand_pat,
                  ab_result, ab_clears,
                   tbefore, tlast>>

\* uci.rs handle_ucinewgame: table::clear(), on the thread that reads the commands
AbTableClear ==
    /\ ab_clears < MaxAbClears
    /\ table' = Table_new
    /\ ab_cut_keys' = {}
    /\ ab_clears' = ab_clears + 1
    /\ UNCHANGED <<ab_root, ab_pc, ab_stack, ab_ret, ab_searcher, ab_stop, ab_eval,
                  ab_stand_pat, ab_result,
                   tbefore, tlast>>

\* ------------------------------------------------------------------
\* threads.rs: the main thread, which serves requests, and the worker threads
\* ------------------------------------------------------------------
VARIABLES
    main_pc,        \* where thread_loop stands
    main_i,         \* the worker the loop over worker_threads() has reached
    main_search,    \* MainThread.search: 0 for None, r for Some(the r-th SearchRequest)
    w_pc,           \* where each worker_thread_loop stands
    idle,           \* the bool guarded by each WorkerThread.idle_lock
    idle_lock,      \* TRUE while the worker holds its idle_lock
    stop_flag,      \* each WorkerThread.stop_flag
    w_search,       \* the SearchRequest each worker read with get_search()
    bestmoves,      \* number of `bestmove` lines printed for each SearchRequest
    nsearches,      \* number of Request::Search received so far
    last_request    \* the request whose handling finished last

NumWorkers == 2
MaxSearches == 2
Workers == 0..(NumWorkers - 1)

\* the id of ThreadIdentifier::WorkerThread(id), for the worker thread asking
get_worker_id(w) == w

ThreadsInit ==
    /\ main_pc = "recv"
    /\ main_i = 0
    /\ main_search = 0
    /\ w_pc = [w \in Workers |-> "lock"]
    /\ idle = [w \in Workers |-> TRUE]
    /\ idle_lock = [w \in Workers |-> FALSE]
    /\ stop_flag = [w \in Workers |-> FALSE]
    /\ w_search = [w \in Workers |-> 0]
    /\ bestmoves = [r \in 1..MaxSearches |-> 0]
    /\ nsearches = 0
    /\ last_request = "none"

\* Request::Ping => tx.send(Response::Ping)
MainPing ==
    /\ main_pc = "recv"
    /\ last_request' = "Ping"
    /\ UNCHANGED <<main_pc, main_i, main_search, w_pc, idle, idle_lock, stop_flag, w_search,
                   bestmoves, nsearches>>

\* Request::Shutdown => the loop returns
MainShutdown ==
    /\ main_pc = "recv"
    /\ main_pc' = "exited"
    /\ last_request' = "Shutdown"
    /\ UNCHANGED <<main_i, main_search, w_pc, idle, idle_lock, stop_flag, w_search,
                   bestmoves, nsearches>>

\* Request::Search(req) => set_search(Some(req))
MainSearch ==
    /\ main_pc = "recv"
    /\ nsearches < MaxSearches
    /\ nsearches' = nsearches + 1
    /\ main_search' = nsearches + 1
    /\ main_pc' = "start"
    /\ main_i' = 0
    /\ UNCHANGED <<w_pc, idle, idle_lock, stop_flag, w_search, bestmoves, last_request>>

\* worker.start(): lock idle_lock, *idle = false, notify_one
MainStartWorker ==
    /\ main_pc = "start"
    /\ ~idle_lock[main_i]
    /\ idle' = [idle EXCEPT ![main_i] = FALSE]
    /\ IF main_i + 1 < NumWorkers
       THEN main_i' = main_i + 1 /\ UNCHANGED <<main_pc, last_request>>
       ELSE main_i' = 0 /\ main_pc' = "recv" /\ last_request' = "Search"
    /\ UNCHANGED <<main_search, w_pc, idle_lock, stop_flag, w_search, bestmoves, nsearches>>

\* Request::Stop
MainStop ==
    /\ main_pc = "recv"
    /\ main_pc' = "stop"
    /\ main_i' = 0
    /\ UNCHANGED <<main_search, w_pc, idle, idle_lock, stop_flag, w_search, bestmoves,
                   nsearches, last_request>>

\* worker.stop(): stop_flag.store(true)
MainStopWorker ==
    /\ main_pc = "stop"
    /\ stop_flag' = [stop_flag EXCEPT ![main_i] = TRUE]
    /\ IF main_i + 1 < NumWorkers
       THEN main_i' = main_i + 1 /\ UNCHANGED main_pc
       ELSE main_i' = 0 /\ main_pc' = "clear_search"
    /\ UNCHANGED <<main_search, w_pc, idle, idle_lock, w_search, bestmoves, nsearches,
                   last_request>>

\* set_search(None), the end of the Stop arm
MainClearSearch ==
    /\ main_pc = "clear_search"
    /\ main_search' = 0
    /\ main_pc' = "recv"
    /\ last_request' = "Stop"
    /\ UNCHANGED <<main_i, w_pc, idle, idle_lock, stop_flag, w_search, bestmoves, nsearches>>

\* idle_lock.lock() and the first test of wait_while
WorkerLock(w) ==
    /\ w_pc[w] = "lock"
    /\ ~idle_lock[w]
    /\ IF idle[w]
       THEN w_pc' = [w_pc EXCEPT ![w] = "wait"] /\ UNCHANGED idle_lock
       ELSE w_pc' = [w_pc EXCEPT ![w] = "active"] /\ idle_lock' = [idle_lock EXCEPT ![w] = TRUE]
    /\ UNCHANGED <<main_pc, main_i, main_search, idle, stop_flag, w_search, bestmoves,
                   nsearches, last_request>>

\* wait_while returns: the lock is held again and *idle is false
WorkerWake(w) ==
    /\ w_pc[w] = "wait"
    /\ ~idle_lock[w]
    /\ ~idle[w]
    /\ w_pc' = [w_pc EXCEPT ![w] = "active"]
    /\ idle_lock' = [idle_lock EXCEPT ![w] = TRUE]
    /\ UNCHANGED <<main_pc, main_i, main_search, idle, stop_flag, w_search, bestmoves,
                   nsearches, last_request>>

\* if let Some(search) = get().main_thread().get_search()
WorkerGetSearch(w) ==
    /\ w_pc[w] = "active"
    /\ IF main_search # 0
       THEN w_search' = [w_search EXCEPT ![w] = main_search]
            /\ w_pc' = [w_pc EXCEPT ![w] = "searching"]
       ELSE w_pc' = [w_pc EXCEPT ![w] = "reset_stop"] /\ UNCHANGED w_search
    /\ UNCHANGED <<main_pc, main_i, main_search, idle, idle_lock, stop_flag, bestmoves,
                   nsearches, last_request>>

\* search::search returns; on its way out it prints `bestmove` on worker 0
WorkerSearch(w) ==
    /\ w_pc[w] = "searching"
    /\ bestmoves' = IF get_worker_id(w) = 0
                    THEN [bestmoves EXCEPT ![w_search[w]] = @ + 1] ELSE bestmoves
    /\ w_pc' = [w_pc EXCEPT ![w] = "print"]
    /\ UNCHANGED <<main_pc, main_i, main_search, idle, idle_lock, stop_flag, w_search,
                   nsearches, last_request>>

\* println!("bestmove {}", ..) of worker_thread_loop
WorkerPrint(w) ==
    /\ w_pc[w] = "print"
    /\ bestmoves' = [bestmoves EXCEPT ![w_search[w]] = @ + 1]
    /\ w_pc' = [w_pc EXCEPT ![w] = "reset_stop"]
    /\ UNCHANGED <<main_pc, main_i, main_search, idle, idle_lock, stop_flag, w_search,
                   nsearches, last_request>>

\* thread.stop_flag.store(false)
WorkerResetStop(w) ==
    /\ w_pc[w] = "reset_stop"
    /\ stop_flag' = [stop_flag EXCEPT ![w] = FALSE]
    /\ w_pc' = [w_pc EXCEPT ![w] = "set_idle"]
    /\ UNCHANGED <<main_pc, main_i, main_search, idle, idle_lock, w_search, bestmoves,
                   nsearches, last_request>>

\* *idle = true, and the guard is dropped at the end of the loop body
WorkerSetIdle(w) ==
    /\ w_pc[w] = "set_idle"
    /\ idle' = [idle EXCEPT ![w] = TRUE]
    /\ idle_lock' = [idle_lock EXCEPT ![w] = FALSE]
    /\ w_pc' = [w_pc EXCEPT ![w] = "lock"]
    /\ UNCHANGED <<main_pc, main_i, main_search, stop_flag, w_search, bestmoves, nsearches,
                   last_request>>

\* a worker parked in wait_while, or about to park there
worker_is_idle(w) == idle[w] /\ ~idle_lock[w] /\ w_pc[w] \in {"lock", "wait"}

\* ------------------------------------------------------------------
\* threads.rs: the thread that owns the MainThread (the UCI driver, or a test)
\* and the two rendezvous channels between it and thread_loop. A send on a
\* sync_channel(0) offers its message and returns once the other side has taken
\* it. The worker threads are those of the section above.
\* ------------------------------------------------------------------
VARIABLES
    req_ch,         \* request channel: the request a send has offered, "none" when taken
    resp_ch,        \* response channel, likewise
    cl_pc,          \* the owner: "idle", "send", "ping_recv", "shutdown_recv", "join", "done"
    cl_sent,        \* how many requests of each kind it has sent
    cl_last,        \* the request it sent last
    m_recv,         \* how many requests of each kind thread_loop has received
    cl_pongs,       \* calls of ping() that have returned true
    m_replies,      \* responses thread_loop has sent
    main_position,  \* MainThread.position
    npositions,     \* calls of set_position
    handled,        \* for every Search request handled: MainThread.position at that moment
    w_woke,         \* for every worker: the Search request whose start() set *idle = false
    w_read,         \* for every worker: what it read with get_search and get_position
    stop_idle,      \* for every worker: its stop flag was stored while it was idle
    w_began_stopped \* for every worker: its last search began with such a stop flag

MaxPings == 1
MaxStops == 1
MaxPositions == 1
PoolPositions == 0..MaxPositions

Requests == {"Ping", "Shutdown", "Search", "Stop"}

PoolInit ==
    /\ req_ch = "none"
    /\ resp_ch = "none"
    /\ cl_pc = "idle"
    /\ cl_sent = [r \in Requests |-> 0]
    /\ cl_last = "none"
    /\ m_recv = [r \in Requests |-> 0]
    /\ cl_pongs = 0
    /\ m_replies = 0
    /\ main_position = 0
    /\ npositions = 0
    /\ handled = [r \in 1..MaxSearches |-> 0]
    /\ w_woke = [w \in Workers |-> 0]
    /\ w_read = [w \in Workers |-> [search |-> 0, position |-> 0]]
    /\ stop_idle = [w \in Workers |-> FALSE]
    /\ w_began_stopped = [w \in Workers |-> FALSE]

\* request_tx.send(r): the request is offered
ClientSend(r) ==
    /\ cl_pc = "idle"
    /\ req_ch' = r
    /\ cl_sent' = [cl_sent EXCEPT ![r] = @ + 1]
    /\ cl_last' = r
    /\ cl_pc' = "send"
    /\ UNCHANGED <<resp_ch, m_recv, cl_pongs, m_replies, main_position, npositions, handled,
                   w_woke, w_read, stop_idle, w_began_stopped>>
    /\ UNCHANGED <<main_pc, main_i, main_search, w_pc, idle, idle_lock, stop_flag, w_search,
                   bestmoves, nsearches, last_request>>

\* MainThread::ping, up to the send
ClientPing ==
    /\ cl_sent["Ping"] < MaxPings
    /\ ClientSend("Ping")

\* MainThread::search
ClientSearch ==
    /\ cl_sent["Search"] < MaxSearches
    /\ ClientSend("Search")

\* MainThread::stop
ClientStop ==
    /\ cl_sent["Stop"] < MaxStops
    /\ ClientSend("Stop")

\* MainThread::shutdown, up to the send
ClientShutdown ==
    ClientSend("Shutdown")

\* a ping() that does not wait for the response
ClientSentNoWait ==
    /\ cl_pc = "send"
    /\ req_ch = "none"
    /\ cl_pc' = (IF cl_last = "Shutdown" THEN "shutdown_recv" ELSE "idle")
    /\ UNCHANGED <<req_ch, resp_ch, cl_sent, cl_last, m_recv, cl_pongs, m_replies,
                   main_position, npositions, handled, w_woke, w_read, stop_idle,
                   w_began_stopped>>
    /\ UNCHANGED <<main_pc, main_i, main_search, w_pc, idle, idle_lock, stop_flag, w_search,
                   bestmoves, nsearches, last_request>>

\* the send returns: thread_loop has taken the request
ClientSent ==
    /\ cl_pc = "send"
    /\ req_ch = "none"
    /\ cl_pc' = (IF cl_last = "Ping" THEN "ping_recv"
                 ELSE IF cl_last = "Shutdown" THEN "shutdown_recv"
                 ELSE "idle")
    /\ UNCHANGED <<req_ch, resp_ch, cl_sent, cl_last, m_recv, cl_pongs, m_replies,
                   main_position, npositions, handled, w_woke, w_read, stop_idle,
                   w_began_stopped>>
    /\ UNCHANGED <<main_pc, main_i, main_search, w_pc, idle, idle_lock, stop_flag, w_search,
                   bestmoves, nsearches, last_request>>

\* response_rx.recv() of ping, which then returns true
ClientPingRecv ==
    /\ cl_pc = "ping_recv"
    /\ resp_ch # "none"
    /\ resp_ch' = "none"
    /\ cl_pongs' = cl_pongs + 1
    /\ cl_pc' = "idle"
    /\ UNCHANGED <<req_ch, cl_sent, cl_last, m_recv, m_replies, main_position, npositions,
                   handled, w_woke, w_read, stop_idle, w_began_stopped>>
    /\ UNCHANGED <<main_pc, main_i, main_search, w_pc, idle, idle_lock, stop_flag, w_search,
                   bestmoves, nsearches, last_request>>

\* response_rx.recv() of shutdown
ClientShutdownRecv ==
    /\ cl_pc = "shutdown_recv"
    /\ resp_ch # "none"
    /\ resp_ch' = "none"
    /\ cl_pc' = "join"
    /\ UNCHANGED <<req_ch, cl_sent, cl_last, m_recv, cl_pongs, m_replies, main_position,
                   npositions, handled, w_woke, w_read, stop_idle, w_began_stopped>>
    /\ UNCHANGED <<main_pc, main_i, main_search, w_pc, idle, idle_lock, stop_flag, w_search,
                   bestmoves, nsearches, last_request>>

\* self.handle.join() of shutdown
ClientJoin ==
    /\ cl_pc = "join"
    /\ main_pc = "exited"
    /\ cl_pc' = "done"
    /\ UNCHANGED <<req_ch, resp_ch, cl_sent, cl_last, m_recv, cl_pongs, m_replies,
                   main_position, npositions, handled, w_woke, w_read, stop_idle,
                   w_began_stopped>>
    /\ UNCHANGED <<main_pc, main_i, main_search, w_pc, idle, idle_lock, stop_flag, w_search,
                   bestmoves, nsearches, last_request>>

\* MainThread::set_position
ClientSetPosition == \E p \in PoolPositions \ {main_position} :
    /\ cl_pc = "idle"
    /\ npositions < MaxPositions
    /\ npositions' = npositions + 1
    /\ main_position' = p
    /\ UNCHANGED <<req_ch, resp_ch, cl_pc, cl_sent, cl_last, m_recv, cl_pongs, m_replies,
                   handled, w_woke, w_read, stop_idle, w_began_stopped>>
    /\ UNCHANGED <<main_pc, main_i, main_search, w_pc, idle, idle_lock, stop_flag, w_search,
                   bestmoves, nsearches, last_request>>

\* rx.recv() of thread_loop takes the request r
PoolRecv(r) ==
    /\ req_ch = r
    /\ req_ch' = "none"
    /\ m_recv' = [m_recv EXCEPT ![r] = @ + 1]
    /\ UNCHANGED <<resp_ch, cl_pc, cl_sent, cl_last, cl_pongs, m_replies, main_position,
                   npositions, w_woke, w_read, stop_idle, w_began_stopped>>

\* Request::Ping and Request::Shutdown: tx.send(..) is next
PoolRecvReply == \E r \in {"Ping", "Shutdown"} :
    /\ main_pc = "recv"
    /\ PoolRecv(r)
    /\ main_pc' = (IF r = "Ping" THEN "reply_ping" ELSE "reply_shutdown")
    /\ UNCHANGED handled
    /\ UNCHANGED <<main_i, main_search, w_pc, idle, idle_lock, stop_flag, w_search,
                   bestmoves, nsearches, last_request>>

\* Request::Search(req)
PoolRecvSearch ==
    /\ PoolRecv("Search")
    /\ MainSearch
    /\ handled' = [handled EXCEPT ![nsearches + 1] = main_position]

\* Request::Stop
PoolRecvStop ==
    /\ PoolRecv("Stop")
    /\ MainStop
    /\ UNCHANGED handled

\* tx.send(Response::Ping) and tx.send(Response::Shutdown): the response is offered
PoolSendResponse ==
    /\ main_pc \in {"reply_ping", "reply_shutdown"}
    /\ resp_ch' = (IF main_pc = "reply_ping" THEN "Ping" ELSE "Shutdown")
    /\ m_replies' = m_replies + 1
    /\ main_pc' = (IF main_pc = "reply_ping" THEN "sent_ping" ELSE "sent_shutdown")
    /\ UNCHANGED <<req_ch, cl_pc, cl_sent, cl_last, m_recv, cl_pongs, main_position,
                   npositions, handled, w_woke, w_read, stop_idle, w_began_stopped>>
    /\ UNCHANGED <<main_i, main_search, w_pc, idle, idle_lock, stop_flag, w_search,
                   bestmoves, nsearches, last_request>>

\* the send returns: after Ping the loop goes on, after Shutdown it returns
PoolResponseTaken ==
    /\ main_pc \in {"sent_ping", "sent_shutdown"}
    /\ resp_ch = "none"
    /\ main_pc' = (IF main_pc = "sent_ping" THEN "recv" ELSE "exited")
    /\ last_request' = (IF main_pc = "sent_ping" THEN "Ping" ELSE "Shutdown")
    /\ UNCHANGED <<req_ch, resp_ch, cl_pc, cl_sent, cl_last, m_recv, cl_pongs, m_replies,
                   main_position, npositions, handled, w_woke, w_read, stop_idle,
                   w_began_stopped>>
    /\ UNCHANGED <<main_i, main_search, w_pc, idle, idle_lock, stop_flag, w_search,
                   bestmoves, nsearches>>

PoolKeeps(changed) ==
    /\ UNCHANGED <<req_ch, resp_ch, cl_pc, cl_sent, cl_last, m_recv, cl_pongs, m_replies,
                   main_position, npositions, handled>>
    /\ IF "w_woke" \in changed THEN TRUE ELSE UNCHANGED w_woke
    /\ IF "w_read" \in changed THEN TRUE ELSE UNCHANGED <<w_read, w_began_stopped>>
    /\ IF "stop_idle" \in changed THEN TRUE ELSE UNCHANGED stop_idle

\* worker.start() of the Search arm, for the request being handled
PoolStartWorker ==
    /\ MainStartWorker
    /\ w_woke' = [w_woke EXCEPT ![main_i] = main_search]
    /\ PoolKeeps({"w_woke"})

\* worker.stop() of the Stop arm
PoolStopWorker ==
    /\ MainStopWorker
    /\ stop_idle' = [stop_idle EXCEPT ![main_i] = worker_is_idle(main_i)]
    /\ PoolKeeps({"stop_idle"})

\* get_search() and, when it is Some, get_position() of worker_thread_loop
PoolWorkerGetSearch(w) ==
    /\ WorkerGetSearch(w)
    /\ w_read' = [w_read EXCEPT ![w] =
                     [search |-> main_search,
                      position |-> IF main_search # 0 THEN main_position ELSE 0]]
    /\ w_began_stopped' = [w_began_stopped EXCEPT ![w] =
                              main_search # 0 /\ stop_flag[w] /\ stop_idle[w]]
    /\ PoolKeeps({"w_read"})

PoolWorkerResetStop(w) ==
    /\ WorkerResetStop(w)
    /\ stop_idle' = [stop_idle EXCEPT ![w] = FALSE]
    /\ PoolKeeps({"stop_idle"})

\* the end of the loop body: what the worker read is dropped with its locals
PoolWorkerSetIdle(w) ==
    /\ WorkerSetIdle(w)
    /\ w_woke' = [w_woke EXCEPT ![w] = 0]
    /\ w_read' = [w_read EXCEPT ![w] = [search |-> 0, position |-> 0]]
    /\ w_began_stopped' = [w_began_stopped EXCEPT ![w] = FALSE]
    /\ PoolKeeps({"w_woke", "w_read"})

\* ------------------------------------------------------------------
\* threads.rs: initialize(), which builds the pool inside INIT.call_once and
\* stores it into THREADS when Threads::new has returned, and the threads that
\* Threads::new spawns on its way. The sleep of a new worker thread is a delay
\* of any length.
\* ------------------------------------------------------------------
VARIABLES
    THREADS,    \* the static: "None" or "Some"
    INIT,       \* the Once: "new", "running" or "done"
    in_pc,      \* the caller of initialize(): "call", "workers", "main", "store", "done"
    in_id,      \* the id Threads::new has reached in its loop
    wt_pc,      \* every worker thread: "unspawned", "sleep", "kind", "current", "loop",
                \* "parked" or "panicked"
    THREAD_KIND,\* the thread-local of every worker thread
    mt_pc       \* the main thread: "unspawned", "kind" or "recv"

StartInit ==
    /\ THREADS = "None"
    /\ INIT = "new"
    /\ in_pc = "call"
    /\ in_id = 0
    /\ wt_pc = [w \in Workers |-> "unspawned"]
    /\ THREAD_KIND = [w \in Workers |-> "Unknown"]
    /\ mt_pc = "unspawned"

\* initialize(): INIT.call_once runs the closure, which calls Threads::new
Initialize ==
    /\ in_pc = "call"
    /\ INIT = "new"
    /\ INIT' = "running"
    /\ in_pc' = "workers"
    /\ UNCHANGED <<THREADS, in_id, wt_pc, THREAD_KIND, mt_pc>>

\* Threads::new: workers.push(WorkerThread::new(id)), which spawns the thread
SpawnWorker ==
    /\ in_pc = "workers"
    /\ wt_pc' = [wt_pc EXCEPT ![in_id] = "sleep"]
    /\ IF in_id + 1 < NumWorkers
       THEN in_id' = in_id + 1 /\ UNCHANGED in_pc
       ELSE in_id' = 0 /\ in_pc' = "main"
    /\ UNCHANGED <<THREADS, INIT, THREAD_KIND, mt_pc>>

\* Threads::new: MainThread::new(), which spawns the main thread
SpawnMain ==
    /\ in_pc = "main"
    /\ mt_pc' = "kind"
    /\ in_pc' = "store"
    /\ UNCHANGED <<THREADS, INIT, in_id, wt_pc, THREAD_KIND>>

\* THREADS = Some(..), the end of the closure and of call_once
StoreThreads ==
    /\ in_pc = "store"
    /\ THREADS' = "Some"
    /\ INIT' = "done"
    /\ in_pc' = "done"
    /\ UNCHANGED <<in_id, wt_pc, THREAD_KIND, mt_pc>>

\* the worker thread: std::thread::sleep returns
WorkerThreadSleep(w) ==
    /\ wt_pc[w] = "sleep"
    /\ wt_pc' = [wt_pc EXCEPT ![w] = "kind"]
    /\ UNCHANGED <<THREADS, INIT, in_pc, in_id, THREAD_KIND, mt_pc>>

\* THREAD_KIND.with(|kind| *kind.borrow_mut() = WorkerThread(id))
WorkerThreadKind(w) ==
    /\ wt_pc[w] = "kind"
    /\ THREAD_KIND' = [THREAD_KIND EXCEPT ![w] = "WorkerThread"]
    /\ wt_pc' = [wt_pc EXCEPT ![w] = "current"]
    /\ UNCHANGED <<THREADS, INIT, in_pc, in_id, mt_pc>>

\* worker_thread_loop: current(), whose get() panics on None
get_panics == THREADS = "None"
WorkerThreadCurrent(w) ==
    /\ wt_pc[w] = "current"
    /\ wt_pc' = [wt_pc EXCEPT ![w] = IF get_panics THEN "panicked" ELSE "loop"]
    /\ UNCHANGED <<THREADS, INIT, in_pc, in_id, THREAD_KIND, mt_pc>>

\* worker_thread_loop: idle_lock.lock() and wait_while, where the thread parks
WorkerThreadPark(w) ==
    /\ wt_pc[w] = "loop"
    /\ wt_pc' = [wt_pc EXCEPT ![w] = "parked"]
    /\ UNCHANGED <<THREADS, INIT, in_pc, in_id, THREAD_KIND, mt_pc>>

\* the main thread sets its THREAD_KIND and waits in rx.recv()
MainThreadKind ==
    /\ mt_pc = "kind"
    /\ mt_pc' = "recv"
    /\ UNCHANGED <<THREADS, INIT, in_pc, in_id, wt_pc, THREAD_KIND>>

\* ------------------------------------------------------------------
\* table.rs: the table shared by the worker threads. CHashMap::get and
\* CHashMap::insert are atomic each; the ReadGuard of record_all's get is dropped
\* at the end of its `if let`, before the insert.
\* ------------------------------------------------------------------
VARIABLES
    ct_pc,      \* every worker: "idle", or "insert" between the test and the insert of record_all
    ct_args,    \* every worker: the arguments of its record_all call
    ct_nops     \* number of calls made

MaxSharedOps == 3

SharedInit ==
    /\ ct_pc = [w \in Workers |-> "idle"]
    /\ ct_args = [w \in Workers |-> [p |-> Position_new, depth |-> 0, value |-> 0]]
    /\ ct_nops = 0

\* record_pv on worker w
SharedRecordPv(w) == \E p \in TablePositions, mv \in TableMoves, depth \in 1..MaxTableDepth,
                        value \in TableValues :
    /\ ct_pc[w] = "idle"
    /\ ct_nops < MaxSharedOps
    /\ ct_nops' = ct_nops + 1
    /\ TableStep("record_pv", p, depth, value, record_pv(table, p, mv, depth, value))
    /\ UNCHANGED <<ct_pc, ct_args>>

\* record_cut on worker w
SharedRecordCut(w) == \E p \in TablePositions, mv \in TableMoves, depth \in 1..MaxTableDepth,
                         value \in TableValues :
    /\ ct_pc[w] = "idle"
    /\ ct_nops < MaxSharedOps
    /\ ct_nops' = ct_nops + 1
    /\ TableStep("record_cut", p, depth, value, record_cut(table, p, mv, depth, value))
    /\ UNCHANGED <<ct_pc, ct_args>>

\* record_all on worker w, lines 104-112: the get and the tests on the entry found
record_all_returns(map, p, depth) ==
    /\ p.zobrist_hash \in DOMAIN map
    /\ (IF is_all(map[p.zobrist_hash]) THEN map[p.zobrist_hash].depth > depth ELSE TRUE)
SharedRecordAllGet(w) == \E p \in TablePositions, depth \in 1..MaxTableDepth,
                            value \in TableValues :
    /\ ct_pc[w] = "idle"
    /\ ct_nops < MaxSharedOps
    /\ ct_nops' = ct_nops + 1
    /\ IF record_all_returns(table, p, depth)
       THEN UNCHANGED <<ct_pc, ct_args>>
       ELSE /\ ct_pc' = [ct_pc EXCEPT ![w] = "insert"]
            /\ ct_args' = [ct_args EXCEPT ![w] = [p |-> p, depth |-> depth, value |-> value]]
    /\ UNCHANGED <<table, tbefore, tlast>>

\* record_all on worker w, lines 114-122: the insert
SharedRecordAllInsert(w) ==
    /\ ct_pc[w] = "insert"
    /\ LET a == ct_args[w]
       IN TableStep("insert_all", a.p, a.depth, a.value,
                    map_insert(table, a.p.zobrist_hash,
                               TableEntry(a.p.zobrist_hash, NoMove, a.depth, "All", a.value)))
    /\ ct_pc' = [ct_pc EXCEPT ![w] = "idle"]
    /\ UNCHANGED <<ct_args, ct_nops>>

\* ------------------------------------------------------------------
\* Specifications: each one drives one part of the program and leaves the
\* variables of the other parts where their constructors put them
\* ------------------------------------------------------------------
pos_vars == <<pos, pos2, moves, gen_side, last_op, nops>>
gambit_vars == <<gpos, gsaved, gmade, gexpected, glast>>
table_vars == <<table, tbefore, tlast>>
search_vars == <<s_pc, options, s_depth, now, start_time, node_count, subsearch_opts, searcher,
                 hard_stop, may_evaluate, last_check, limit_fired, fired_before_check>>
threads_vars == <<main_pc, main_i, main_search, w_pc, idle, idle_lock, stop_flag, w_search,
                  bestmoves, nsearches, last_request>>
pv_vars == <<pv, pv_depth>>
value_vars == <<val_op, val_a, val_b, val_r>>
ab_vars == <<ab_pc, ab_root, ab_stack, ab_ret, ab_searcher, ab_stop, ab_eval, ab_result, ab_cut_keys, ab_clears,
             ab_stand_pat>>
fen_vars == <<fen_text, fen_err>>
make_vars == <<mk_mov, mk_revoked>>
uci_vars == <<uci_position, uci_output, uci_panicked, uci_before, uci_illegal, uci_ncmds>>
pool_vars == <<req_ch, resp_ch, cl_pc, cl_sent, cl_last, m_recv, cl_pongs, m_replies, main_position, npositions, handled, w_woke, w_read, stop_idle, w_began_stopped>>
start_vars == <<THREADS, INIT, in_pc, in_id, wt_pc, THREAD_KIND, mt_pc>>
shared_vars == <<ct_pc, ct_args, ct_nops>>
text_vars == <<fen_src>>
iter_vars == <<current_best_move, current_best_score, s_result, iters, iter_cut>>
vars == <<debug_assertions, pos_vars, gambit_vars, table_vars, search_vars, threads_vars, pv_vars, value_vars, ab_vars, fen_vars, make_vars, uci_vars, pool_vars, start_vars, shared_vars, text_vars, iter_vars>>

\* the position variables of a part that does not use them, in a given build
PosUnused ==
    /\ debug_assertions = TRUE
    /\ pos = Position_new
    /\ pos2 = Position_new
    /\ moves = {}
    /\ gen_side = White
    /\ last_op = "new"
    /\ nops = 0

OnlyPos == UNCHANGED <<gambit_vars, table_vars, search_vars, threads_vars, pv_vars, value_vars, ab_vars, fen_vars, make_vars, uci_vars, pool_vars, start_vars, shared_vars, text_vars, iter_vars>>
OnlyGambit == UNCHANGED <<pos_vars, table_vars, search_vars, threads_vars, pv_vars, value_vars, ab_vars, fen_vars, make_vars, uci_vars, pool_vars, start_vars, shared_vars, text_vars, iter_vars>>
OnlyTable == UNCHANGED <<debug_assertions, pos_vars, gambit_vars, search_vars, threads_vars, pv_vars, value_vars, ab_vars, fen_vars, make_vars, uci_vars, pool_vars, start_vars, shared_vars, text_vars, iter_vars>>
OnlySearch == UNCHANGED <<debug_assertions, pos_vars, gambit_vars, table_vars, threads_vars, pv_vars, value_vars, ab_vars, fen_vars, make_vars, uci_vars, pool_vars, start_vars, shared_vars, text_vars, iter_vars>>
OnlyThreads == UNCHANGED <<debug_assertions, pos_vars, gambit_vars, table_vars, search_vars, pv_vars, value_vars, ab_vars, fen_vars, make_vars, uci_vars, pool_vars, start_vars, shared_vars, text_vars, iter_vars>>

InitPos == PosInit /\ GambitInit /\ TableInit /\ SearchInit /\ ThreadsInit /\ PvInit /\ ValueInit /\ AbUnused /\ FenInit /\ MakeInit /\ UciInit /\ PoolInit /\ StartInit /\ SharedInit /\ FenTextInit /\ IterInit
PosNext ==
    \/ FromFen /\ OnlyPos
    \/ AddPiece /\ OnlyPos
    \/ RemovePiece /\ OnlyPos
    \/ MakeMove /\ OnlyPos
SpecPos == InitPos /\ [][PosNext]_vars

InitHash == HashInit /\ GambitInit /\ TableInit /\ SearchInit /\ ThreadsInit /\ PvInit /\ ValueInit /\ AbUnused /\ FenInit /\ MakeInit /\ UciInit /\ PoolInit /\ StartInit /\ SharedInit /\ FenTextInit /\ IterInit
HashNext ==
    \/ HashFromFen /\ OnlyPos
    \/ MakeMoveFirst /\ OnlyPos
    \/ MakeMoveSecond /\ OnlyPos
SpecHash == InitHash /\ [][HashNext]_vars

InitGen == GenInit /\ GambitInit /\ TableInit /\ SearchInit /\ ThreadsInit /\ PvInit /\ ValueInit /\ AbUnused /\ FenInit /\ MakeInit /\ UciInit /\ PoolInit /\ StartInit /\ SharedInit /\ FenTextInit /\ IterInit
GenNext ==
    \/ GenFromFen /\ OnlyPos
    \/ GenerateMoves /\ OnlyPos
    \/ MakeGenerated /\ OnlyPos
SpecGen == InitGen /\ [][GenNext]_vars

InitGambit == PosInit /\ GambitInit /\ TableInit /\ SearchInit /\ ThreadsInit /\ PvInit /\ ValueInit /\ AbUnused /\ FenInit /\ MakeInit /\ UciInit /\ PoolInit /\ StartInit /\ SharedInit /\ FenTextInit /\ IterInit
GambitNext ==
    \/ GambitFromFen /\ OnlyGambit
    \/ GambitMakeMove /\ OnlyGambit
    \/ GambitUnmakeMove /\ OnlyGambit
SpecGambit == InitGambit /\ [][GambitNext]_vars

InitTable == PosUnused /\ GambitInit /\ TableInit /\ SearchInit /\ ThreadsInit /\ PvInit /\ ValueInit /\ AbUnused /\ FenInit /\ MakeInit /\ UciInit /\ PoolInit /\ StartInit /\ SharedInit /\ FenTextInit /\ IterInit
TableNext ==
    \/ RecordPv /\ OnlyTable
    \/ RecordCut /\ OnlyTable
    \/ RecordAll /\ OnlyTable
    \/ TableClear /\ OnlyTable
SpecTable == InitTable /\ [][TableNext]_vars

InitSearch == PosUnused /\ GambitInit /\ TableInit /\ SearchInit /\ ThreadsInit /\ PvInit /\ ValueInit /\ AbUnused /\ FenInit /\ MakeInit /\ UciInit /\ PoolInit /\ StartInit /\ SharedInit /\ FenTextInit /\ IterInit
SearchNext ==
    \/ SearchCall /\ OnlySearch
    \/ LoopHead /\ OnlySearch
    \/ NewSearcher /\ OnlySearch
    \/ FirstCheck /\ OnlySearch
    \/ WalkCheck /\ OnlySearch
    \/ Quiesce /\ OnlySearch
    \/ EndIteration /\ OnlySearch
    \/ Report /\ OnlySearch
    \/ Tick /\ OnlySearch
    \/ SetHardStop /\ OnlySearch
SpecSearch == InitSearch /\ [][SearchNext]_vars

InitThreads == PosUnused /\ GambitInit /\ TableInit /\ SearchInit /\ ThreadsInit /\ PvInit /\ ValueInit /\ AbUnused /\ FenInit /\ MakeInit /\ UciInit /\ PoolInit /\ StartInit /\ SharedInit /\ FenTextInit /\ IterInit
ThreadsNext ==
    \/ MainPing /\ OnlyThreads
    \/ MainShutdown /\ OnlyThreads
    \/ MainSearch /\ OnlyThreads
    \/ MainStartWorker /\ OnlyThreads
    \/ MainStop /\ OnlyThreads
    \/ MainStopWorker /\ OnlyThreads
    \/ MainClearSearch /\ OnlyThreads
    \/ \E w \in Workers : WorkerLock(w) /\ OnlyThreads
    \/ \E w \in Workers : WorkerWake(w) /\ OnlyThreads
    \/ \E w \in Workers : WorkerGetSearch(w) /\ OnlyThreads
    \/ \E w \in Workers : WorkerSearch(w) /\ OnlyThreads
    \/ \E w \in Workers : WorkerPrint(w) /\ OnlyThreads
    \/ \E w \in Workers : WorkerResetStop(w) /\ OnlyThreads
    \/ \E w \in Workers : WorkerSetIdle(w) /\ OnlyThreads
SpecThreads == InitThreads /\ [][ThreadsNext]_vars

OnlyPv == UNCHANGED <<gambit_vars, search_vars, threads_vars, value_vars, ab_vars, fen_vars, make_vars, uci_vars, pool_vars, start_vars, shared_vars, text_vars, iter_vars>>
InitPv == PosInit /\ GambitInit /\ TableInit /\ SearchInit /\ ThreadsInit /\ PvInit /\ ValueInit /\ AbUnused /\ FenInit /\ MakeInit /\ UciInit /\ PoolInit /\ StartInit /\ SharedInit /\ FenTextInit /\ IterInit
PvNext ==
    \/ PvFromFen /\ OnlyPv
    \/ PvRecordPv /\ OnlyPv
    \/ PvRecordAll /\ OnlyPv
    \/ GetPv /\ OnlyPv
SpecPv == InitPv /\ [][PvNext]_vars

OnlyValue == UNCHANGED <<debug_assertions, pos_vars, gambit_vars, table_vars, search_vars, threads_vars, pv_vars, ab_vars, fen_vars, make_vars, uci_vars, pool_vars, start_vars, shared_vars, text_vars, iter_vars>>
InitValue == PosInit /\ GambitInit /\ TableInit /\ SearchInit /\ ThreadsInit /\ PvInit /\ ValueInit /\ AbUnused /\ FenInit /\ MakeInit /\ UciInit /\ PoolInit /\ StartInit /\ SharedInit /\ FenTextInit /\ IterInit
ValueNext ==
    \/ ValueAdd /\ OnlyValue
    \/ ValueAddI16 /\ OnlyValue
    \/ ValueSub /\ OnlyValue
    \/ ValueSubI16 /\ OnlyValue
    \/ ValueMateIn /\ OnlyValue
    \/ ValueMatedIn /\ OnlyValue
    \/ ValueNeg /\ OnlyValue
SpecValue == InitValue /\ [][ValueNext]_vars

OnlyAb == UNCHANGED <<debug_assertions, pos_vars, gambit_vars, search_vars, threads_vars, pv_vars,
                      value_vars, fen_vars, make_vars, uci_vars, pool_vars, start_vars, shared_vars, text_vars, iter_vars>>
InitAb == PosUnused /\ GambitInit /\ TableInit /\ SearchInit /\ ThreadsInit /\ PvInit /\ ValueInit /\ FenInit /\ MakeInit /\ UciInit /\ PoolInit /\ StartInit /\ SharedInit /\ FenTextInit /\ IterInit
          /\ AbInit
AbNext ==
    \/ AbSearch /\ OnlyAb
    \/ AbEntry /\ OnlyAb
    \/ AbTransposition /\ OnlyAb
    \/ AbHash /\ OnlyAb
    \/ AbHashRet /\ OnlyAb
    \/ AbGenerate /\ OnlyAb
    \/ AbLoop /\ OnlyAb
    \/ AbLoopRet /\ OnlyAb
    \/ AbQuiesceEntry /\ OnlyAb
    \/ AbQuiesceLoop /\ OnlyAb
    \/ AbQuiesceRet /\ OnlyAb
    \/ AbPost /\ OnlyAb
    \/ AbQuery /\ OnlyAb
    \/ AbSetHardStop /\ OnlyAb
    \/ AbResetStop /\ OnlyAb
    \/ AbTableClear /\ OnlyAb
SpecAb == InitAb /\ [][AbNext]_vars

OnlyFen == UNCHANGED <<gambit_vars, table_vars, search_vars, threads_vars, pv_vars, value_vars,
                       ab_vars, make_vars, uci_vars, pool_vars, start_vars, shared_vars, text_vars, iter_vars>>
InitFen == PosInit /\ GambitInit /\ TableInit /\ SearchInit /\ ThreadsInit /\ PvInit /\ ValueInit /\ MakeInit /\ UciInit /\ PoolInit /\ StartInit /\ SharedInit /\ FenTextInit /\ IterInit
           /\ AbUnused /\ FenInit
FenNext ==
    \/ FenFromFen /\ OnlyFen
    \/ FenMakeMove /\ OnlyFen
    \/ FenRoundTrip /\ OnlyFen
SpecFen == InitFen /\ [][FenNext]_vars

OnlyMake == UNCHANGED <<gambit_vars, table_vars, search_vars, threads_vars, pv_vars, value_vars,
                        ab_vars, fen_vars, uci_vars, pool_vars, start_vars, shared_vars, text_vars, iter_vars>>
InitMake == PosInit /\ GambitInit /\ TableInit /\ SearchInit /\ ThreadsInit /\ PvInit /\ ValueInit /\ UciInit /\ PoolInit /\ StartInit /\ SharedInit /\ FenTextInit /\ IterInit
            /\ AbUnused /\ FenInit /\ MakeInit
MakeNext ==
    \/ MakeFromFen /\ OnlyMake
    \/ MakeMakeMove /\ OnlyMake
SpecMake == InitMake /\ [][MakeNext]_vars

\* handle_ucinewgame: set_position(Position::new()), then table::clear(); the worker
\* threads it starts anew hold no position
HandleUcinewgame ==
    /\ ~uci_panicked
    /\ uci_ncmds < MaxUciCmds
    /\ uci_ncmds' = uci_ncmds + 1
    /\ uci_before' = uci_position
    /\ uci_illegal' = << >>
    /\ uci_position' = Position_new
    /\ uci_output' = << >>
    /\ TableClear
    /\ UNCHANGED <<uci_panicked, debug_assertions, pos, pos2, moves, gen_side, last_op, nops>>

OnlyUci == UNCHANGED <<gambit_vars, table_vars, search_vars, threads_vars, pv_vars, value_vars,
                       ab_vars, fen_vars, make_vars, pool_vars, start_vars, shared_vars, text_vars, iter_vars>>
InitUci == PosUnused /\ GambitInit /\ TableInit /\ SearchInit /\ ThreadsInit /\ PvInit /\ ValueInit /\ PoolInit /\ StartInit /\ SharedInit /\ FenTextInit /\ IterInit
           /\ AbUnused /\ FenInit /\ MakeInit /\ UciInit
OnlyUciAndTable == UNCHANGED <<gambit_vars, search_vars, threads_vars, pv_vars, value_vars,
                               ab_vars, fen_vars, make_vars, pool_vars, start_vars, shared_vars, text_vars, iter_vars>>
UciNext ==
    \/ HandlePosition /\ OnlyUci
    \/ HandleUcinewgame /\ OnlyUciAndTable
SpecUci == InitUci /\ [][UciNext]_vars

OnlyPool == UNCHANGED <<debug_assertions, pos_vars, gambit_vars, table_vars, search_vars, pv_vars,
                        value_vars, ab_vars, fen_vars, make_vars, uci_vars, start_vars, shared_vars, text_vars, iter_vars>>
InitPool == PosUnused /\ GambitInit /\ TableInit /\ SearchInit /\ ThreadsInit /\ PvInit /\ ValueInit /\ AbUnused /\ FenInit /\ MakeInit /\ UciInit /\ PoolInit /\ StartInit /\ SharedInit /\ FenTextInit /\ IterInit
PoolNext ==
    \/ ClientPing /\ OnlyPool
    \/ ClientSearch /\ OnlyPool
    \/ ClientStop /\ OnlyPool
    \/ ClientShutdown /\ OnlyPool
    \/ ClientSent /\ OnlyPool
    \/ ClientPingRecv /\ OnlyPool
    \/ ClientShutdownRecv /\ OnlyPool
    \/ ClientJoin /\ OnlyPool
    \/ ClientSetPosition /\ OnlyPool
    \/ PoolRecvReply /\ OnlyPool
    \/ PoolRecvSearch /\ OnlyPool
    \/ PoolRecvStop /\ OnlyPool
    \/ PoolSendResponse /\ OnlyPool
    \/ PoolResponseTaken /\ OnlyPool
    \/ PoolStartWorker /\ OnlyPool
    \/ PoolStopWorker /\ OnlyPool
    \/ MainClearSearch /\ OnlyThreads
    \/ \E w \in Workers : WorkerLock(w) /\ OnlyThreads
    \/ \E w \in Workers : WorkerWake(w) /\ OnlyThreads
    \/ \E w \in Workers : PoolWorkerGetSearch(w) /\ OnlyPool
    \/ \E w \in Workers : WorkerSearch(w) /\ OnlyThreads
    \/ \E w \in Workers : WorkerPrint(w) /\ OnlyThreads
    \/ \E w \in Workers : PoolWorkerResetStop(w) /\ OnlyPool
    \/ \E w \in Workers : PoolWorkerSetIdle(w) /\ OnlyPool
SpecPool == InitPool /\ [][PoolNext]_vars

\* the owner pings, searches, stops and shuts down; every thread that can take a
\* step takes one in the end, and a call that has begun goes on when it can
MainThreadStep ==
    \/ (PoolRecvReply \/ PoolRecvSearch \/ PoolRecvStop \/ PoolSendResponse \/ PoolResponseTaken)
          /\ OnlyPool
    \/ (MainStartWorker \/ MainStopWorker \/ MainClearSearch) /\ OnlyThreads
WorkerStep(w) ==
    \/ WorkerLock(w) \/ WorkerWake(w) \/ WorkerGetSearch(w) \/ WorkerSearch(w)
    \/ WorkerPrint(w) \/ WorkerResetStop(w) \/ WorkerSetIdle(w)
ClientStep == ClientSent \/ ClientPingRecv \/ ClientShutdownRecv \/ ClientJoin
\* the owner sends up to MaxMainRequests requests before it shuts the thread down
MaxMainRequests == 3
MainRequestsLeft ==
    cl_sent["Ping"] + cl_sent["Search"] + cl_sent["Stop"] < MaxMainRequests
MainNext ==
    \/ ClientPing /\ MainRequestsLeft /\ OnlyPool
    \/ ClientSearch /\ MainRequestsLeft /\ OnlyPool
    \/ ClientStop /\ MainRequestsLeft /\ OnlyPool
    \/ ClientShutdown /\ OnlyPool
    \/ ClientSent /\ OnlyPool
    \/ ClientPingRecv /\ OnlyPool
    \/ ClientShutdownRecv /\ OnlyPool
    \/ ClientJoin /\ OnlyPool
    \/ PoolRecvReply /\ OnlyPool
    \/ PoolRecvSearch /\ OnlyPool
    \/ PoolRecvStop /\ OnlyPool
    \/ PoolSendResponse /\ OnlyPool
    \/ PoolResponseTaken /\ OnlyPool
    \/ MainStartWorker /\ OnlyThreads
    \/ MainStopWorker /\ OnlyThreads
    \/ MainClearSearch /\ OnlyThreads
    \/ \E w \in Workers : WorkerLock(w) /\ OnlyThreads
    \/ \E w \in Workers : WorkerWake(w) /\ OnlyThreads
    \/ \E w \in Workers : WorkerGetSearch(w) /\ OnlyThreads
    \/ \E w \in Workers : WorkerSearch(w) /\ OnlyThreads
    \/ \E w \in Workers : WorkerPrint(w) /\ OnlyThreads
    \/ \E w \in Workers : WorkerResetStop(w) /\ OnlyThreads
    \/ \E w \in Workers : WorkerSetIdle(w) /\ OnlyThreads
SpecMain ==
    /\ InitPool
    /\ [][MainNext]_vars
    /\ WF_vars(MainThreadStep)
    /\ WF_vars(ClientStep /\ OnlyPool)
    /\ \A w \in Workers : WF_vars(WorkerStep(w) /\ OnlyThreads)

OnlyStart == UNCHANGED <<debug_assertions, pos_vars, gambit_vars, table_vars, search_vars,
                         threads_vars, pv_vars, value_vars, ab_vars, fen_vars, make_vars,
                         uci_vars, pool_vars, shared_vars, text_vars, iter_vars>>
InitStart == PosUnused /\ GambitInit /\ TableInit /\ SearchInit /\ ThreadsInit /\ PvInit /\ ValueInit /\ AbUnused /\ FenInit /\ MakeInit /\ UciInit /\ PoolInit /\ StartInit /\ SharedInit /\ FenTextInit /\ IterInit
StartNext ==
    \/ Initialize /\ OnlyStart
    \/ SpawnWorker /\ OnlyStart
    \/ SpawnMain /\ OnlyStart
    \/ StoreThreads /\ OnlyStart
    \/ MainThreadKind /\ OnlyStart
    \/ \E w \in Workers : WorkerThreadSleep(w) /\ OnlyStart
    \/ \E w \in Workers : WorkerThreadKind(w) /\ OnlyStart
    \/ \E w \in Workers : WorkerThreadCurrent(w) /\ OnlyStart
    \/ \E w \in Workers : WorkerThreadPark(w) /\ OnlyStart
SpecStart == InitStart /\ [][StartNext]_vars

OnlyShared == UNCHANGED <<debug_assertions, pos_vars, gambit_vars, search_vars, threads_vars,
                          pv_vars, value_vars, ab_vars, fen_vars, make_vars, uci_vars,
                          pool_vars, start_vars, text_vars, iter_vars>>
InitShared == PosUnused /\ GambitInit /\ TableInit /\ SearchInit /\ ThreadsInit /\ PvInit /\ ValueInit /\ AbUnused /\ FenInit /\ MakeInit /\ UciInit /\ PoolInit /\ StartInit /\ SharedInit /\ FenTextInit /\ IterInit
SharedNext ==
    \/ \E w \in Workers : SharedRecordPv(w) /\ OnlyShared
    \/ \E w \in Workers : SharedRecordCut(w) /\ OnlyShared
    \/ \E w \in Workers : SharedRecordAllGet(w) /\ OnlyShared
    \/ \E w \in Workers : SharedRecordAllInsert(w) /\ OnlyShared
SpecShared == InitShared /\ [][SharedNext]_vars

OnlyFenText == UNCHANGED <<gambit_vars, table_vars, search_vars, threads_vars, pv_vars, value_vars,
                           ab_vars, make_vars, uci_vars, pool_vars, start_vars, shared_vars, iter_vars>>
InitFenText == PosInit /\ GambitInit /\ TableInit /\ SearchInit /\ ThreadsInit /\ PvInit /\ ValueInit /\ MakeInit /\ UciInit /\ PoolInit /\ StartInit /\ SharedInit /\ AbUnused /\ FenInit /\ FenTextInit /\ IterInit
FenTextNext ==
    \/ FenTextRoundTrip /\ OnlyFenText
SpecFenText == InitFenText /\ [][FenTextNext]_vars

OnlyIter == UNCHANGED <<debug_assertions, pos_vars, gambit_vars, table_vars, threads_vars, pv_vars,
                        value_vars, ab_vars, fen_vars, make_vars, uci_vars, pool_vars, start_vars,
                        shared_vars, text_vars>>
InitIter == PosUnused /\ GambitInit /\ TableInit /\ SearchInit /\ ThreadsInit /\ PvInit /\ ValueInit /\ AbUnused /\ FenInit /\ MakeInit /\ UciInit /\ PoolInit /\ StartInit /\ SharedInit /\ FenTextInit /\ IterInit
IterNext ==
    \/ IterSearchCall /\ OnlyIter
    \/ IterLoopHead /\ OnlyIter
    \/ IterNewSearcher /\ OnlyIter
    \/ IterFirstCheck /\ OnlyIter
    \/ IterWalkCheck /\ OnlyIter
    \/ IterQuiesce /\ OnlyIter
    \/ IterEnd /\ OnlyIter
    \/ IterReport /\ OnlyIter
    \/ IterTick /\ OnlyIter
    \/ IterSetHardStop /\ OnlyIter
SpecIter == InitIter /\ [][IterNext]_vars

\* ------------------------------------------------------------------
\* Properties
\* ------------------------------------------------------------------

\* C1: make_move(m) followed by unmake_move(m) returns without a panic and yields
\* a gambit position equal in every field (boards, side to move, the stored
\* irreversible record, the history stack) to the position make_move started from.
MakeUnmakeRestores ==
    glast = "unmake_move" => (~gpos.panicked /\ gpos = gexpected)

\* C2: two positions reached from one start position by two make_move sequences
\* that agree on piece placement, side to move, castling rights and en-passant
\* square carry the same zobrist_hash.
EqualPositionsEqualHashes ==
    (last_op # "new" /\ ~pos.panicked /\ ~pos2.panicked /\ same_position(pos, pos2))
        => pos.zobrist_hash = pos2.zobrist_hash

\* C3: in every position reached from Position::new or a parsed FEN by add_piece,
\* remove_piece and make_move calls that did not panic, each colour board is the
\* union of that colour's six kind boards and the twelve kind boards are pairwise
\* disjoint.
BoardsConsistent ==
    ~pos.panicked => ((\A c \in Colors : color_is_union(pos, c)) /\ kinds_disjoint(pos))

\* a position three operations away from its construction, the last one a move
\* that captured, with pieces of both colours left on the board
BoardsConsistentWitness ==
    /\ ~pos.panicked
    /\ nops >= 3
    /\ last_op = "make_move"
    /\ pieces(pos, White) # {} /\ pieces(pos, Black) # {}
    /\ contains(pieces_of_kind(pos, White, Rook), H8)

\* C4: no move that generate_moves emits for a side has its destination on a
\* square occupied by a piece of that side.
NoMoveOntoOwnPiece ==
    \A m \in moves : ~contains(pieces(pos, gen_side), destination(m))

\* the squares strictly between two squares of one rank
between(a, b) == {s \in Squares : (a < s /\ s < b) \/ (b < s /\ s < a)}
\* some piece of `color` attacks `target`
attacked_by(p, color, target) ==
    \E s \in pieces(p, color) :
        target \in attacks(piece_at(p, s).kind, color, s, pieces(p, White) \cup pieces(p, Black))

\* C5: a castle that generate_moves emits for a side is one whose right the side
\* holds, with every square between king and rook empty, the king not attacked,
\* and neither of the two squares the king crosses attacked by the other side.
CastleOnlyWhenAllowed ==
    \A m \in moves : is_castle(m) =>
        LET rook == IF is_kingside_castle(m) THEN kingside_rook(gen_side)
                    ELSE queenside_rook(gen_side)
            crossed == between(source(m), destination(m)) \cup {destination(m)}
        IN /\ IF is_kingside_castle(m) THEN can_castle_kingside(pos, gen_side)
              ELSE can_castle_queenside(pos, gen_side)
           /\ between(source(m), rook) \cap (pieces(pos, White) \cup pieces(pos, Black)) = {}
           /\ ~attacked_by(pos, toggle(gen_side), source(m))
           /\ \A sq \in crossed : ~attacked_by(pos, toggle(gen_side), sq)

\* the main thread waits for a request and every worker is parked: nothing more
\* happens until the next request arrives
ThreadsQuiescent == main_pc = "recv" /\ \A w \in Workers : worker_is_idle(w)

\* C6: every Search request the main thread has handled gets its `bestmove` line:
\* once the threads have come to rest, none of the requests is left without one.
EverySearchAnswered ==
    ThreadsQuiescent => \A r \in 1..nsearches : bestmoves[r] >= 1

\* C7: at most one `bestmove` line is printed for a Search request.
AtMostOneBestmove ==
    \A r \in 1..MaxSearches : bestmoves[r] <= 1

\* C8: when the handling of a Stop request has finished, and until the next
\* request is received, every worker is idle.
StopLeavesWorkersIdle ==
    (main_pc = "recv" /\ last_request = "Stop") => \A w \in Workers : worker_is_idle(w)

\* C9: no can_continue_search check of a search() call returns true after a time
\* or node limit has fired in an earlier check of the same call.
FiredLimitStaysFired ==
    ~(fired_before_check /\ last_check = "true")

\* the entry record_all builds
NewAllEntry == TableEntry(tlast.key, NoMove, tlast.depth, "All", tlast.value)
\* entries under other keys are those the table held before
OtherKeysKept ==
    /\ DOMAIN table = DOMAIN tbefore \cup {tlast.key}
    /\ \A k \in DOMAIN tbefore : k # tlast.key => table[k] = tbefore[k]

\* C10 as stated: record_all stores its entry only when the table has no entry for
\* the position or holds an All entry of strictly shallower depth, and leaves
\* every other entry (PV, Cut, All of equal or greater depth) unchanged.
RecordAllOnlyOverShallower ==
    tlast.op = "record_all" =>
        /\ OtherKeysKept
        /\ IF tlast.key \notin DOMAIN tbefore
              \/ (is_all(tbefore[tlast.key]) /\ tbefore[tlast.key].depth < tlast.depth)
           THEN table[tlast.key] = NewAllEntry
           ELSE table[tlast.key] = tbefore[tlast.key]

\* C10, amended: record_all stores its entry when the table has no entry for the
\* position or holds an All entry of shallower or equal depth; a PV or Cut entry
\* and an All entry of strictly greater depth are left unchanged.
RecordAllOverShallowerOrEqual ==
    tlast.op = "record_all" =>
        /\ OtherKeysKept
        /\ IF tlast.key \notin DOMAIN tbefore
              \/ (is_all(tbefore[tlast.key]) /\ tbefore[tlast.key].depth <= tlast.depth)
           THEN table[tlast.key] = NewAllEntry
           ELSE table[tlast.key] = tbefore[tlast.key]

\* record_all has replaced an All entry of the depth it was called with
RecordAllEqualDepthWitness ==
    /\ tlast.op = "record_all"
    /\ tlast.key \in DOMAIN tbefore
    /\ is_all(tbefore[tlast.key])
    /\ tbefore[tlast.key].depth = tlast.depth
    /\ table[tlast.key] # tbefore[tlast.key]

\* the best moves the table holds along the line from pos
follows_best_moves(line) ==
    \A i \in 1..Len(line) : line[i] = query_best_move(table, play(pos, SubSeq(line, 1, i - 1)))

\* C11: get_pv(pos, depth) returns at most depth moves, each one the best move the
\* table holds for the position reached from pos by the moves before it, and the
\* line ends before depth moves only at a position that has no stored best move.
PvFollowsBestMoves ==
    pv_depth >= 0 =>
        /\ ~pv.panicked
        /\ Len(pv.moves) <= pv_depth
        /\ follows_best_moves(pv.moves)
        /\ (Len(pv.moves) < pv_depth => query_best_move(table, play(pos, pv.moves)) = NoMove)

\* the nearest centipawn score to an exact result
nearest_centipawn(x) ==
    IF x <= VALUE_MATED THEN VALUE_MATED + 1 ELSE IF x >= VALUE_MATE THEN VALUE_MATE - 1 ELSE x

\* C19: for a centipawn score a and any operand b, a + b and a - b are computed
\* without a panic and without wrap-around: the result is the exact sum or
\* difference when that is a centipawn score and the nearest bound otherwise.
SaturatingArithmetic ==
    /\ val_op \in {"add", "add_i16"} =>
          (~val_r.panicked /\ val_r.value = nearest_centipawn(val_a + val_b))
    /\ val_op \in {"sub", "sub_i16"} =>
          (~val_r.panicked /\ val_r.value = nearest_centipawn(val_a - val_b))

\* the centipawn scores
Centipawns == (VALUE_MATED + 1)..(VALUE_MATE - 1)

\* C20: for 0 <= n < 49 (49 is MATE_DISTANCE_MAX - 1), -mate_in(n) = mated_in(n) and -mated_in(n) = mate_in(n),
\* mate_in(n) > mate_in(n+1), mated_in(n+1) > mated_in(n), every mate_in value is
\* greater and every mated_in value smaller than every centipawn score.
MateValuesOrdered ==
    /\ (val_op = "neg_mate_in" /\ val_a < MATE_DISTANCE_MAX - 1) => val_r.value = mated_in(val_a)
    /\ (val_op = "neg_mated_in" /\ val_a < MATE_DISTANCE_MAX - 1) => val_r.value = mate_in(val_a)
    /\ (val_op = "mate_in" /\ val_a < MATE_DISTANCE_MAX) =>
          /\ ~val_r.panicked
          /\ val_a < MATE_DISTANCE_MAX - 1 => val_r.value > mate_in(val_a + 1)
          /\ \A c \in Centipawns : val_r.value > c
    /\ (val_op = "mated_in" /\ val_a < MATE_DISTANCE_MAX) =>
          /\ ~val_r.panicked
          /\ val_a < MATE_DISTANCE_MAX - 1 => mated_in(val_a + 1) > val_r.value
          /\ \A c \in Centipawns : val_r.value < c

\* the mate values of the largest distance have been built and negated
MateValuesOrderedWitness ==
    /\ val_op \in {"neg_mate_in", "neg_mated_in"}
    /\ val_a = MATE_DISTANCE_MAX - 2
    /\ unpack(val_r.value).n = val_a

\* C12: no table entry holds a value or node kind derived from a subtree whose
\* search was cut short by a termination condition
NoEntryFromCutShortSearch == ab_cut_keys = {}

\* C13: Searcher::search never panics: when alpha_beta on the root returns
\* with no termination condition fired, the table holds an entry for the root
\* and the entry has a best move
SearchNeverPanics == ab_result # "panic"

\* C14: for a position P reached by make_move from a parsed FEN,
\* from_fen(as_fen(P)) succeeds and has the placement, side to move, castling
\* rights, en-passant square, clocks and zobrist_hash of P
FenRoundTripEqual ==
    last_op = "round_trip" =>
        /\ fen_err = ""
        /\ ~pos2.panicked
        /\ pos2.sets_by_piece = pos.sets_by_piece
        /\ pos2.sets_by_color = pos.sets_by_color
        /\ pos2.side_to_move = pos.side_to_move
        /\ pos2.castle_status = pos.castle_status
        /\ pos2.en_passant_square = pos.en_passant_square
        /\ pos2.halfmove_clock = pos.halfmove_clock
        /\ pos2.fullmove_clock = pos.fullmove_clock
        /\ pos2.zobrist_hash = pos.zobrist_hash

\* C16: across make_move calls the castling rights only shrink: a king move
\* revokes both rights of the mover, a rook move from the rook's corner revokes
\* that side's right, a capture on a corner of the opponent revokes the
\* opponent's right for that corner, and a right once revoked is never held
\* again
CastleRightsOnlyShrink ==
    (last_op = "make_move" /\ ~pos.panicked) =>
        LET us == pos2.side_to_move
            them == toggle(us)
            moving_piece == piece_at(pos2, source(mk_mov))
        IN /\ pos.castle_status \subseteq pos2.castle_status
           /\ pos.castle_status \cap mk_revoked = {}
           /\ ~is_null(mk_mov) =>
                /\ moving_piece.kind = King => pos.castle_status \cap castle_mask(us) = {}
                /\ (moving_piece.kind = Rook /\ source(mk_mov) = kingside_rook(us))
                       => ~can_castle_kingside(pos, us)
                /\ (moving_piece.kind = Rook /\ source(mk_mov) = queenside_rook(us))
                       => ~can_castle_queenside(pos, us)
                /\ (is_capture(mk_mov) /\ destination(mk_mov) = kingside_rook(them))
                       => ~can_castle_kingside(pos, them)
                /\ (is_capture(mk_mov) /\ destination(mk_mov) = queenside_rook(them))
                       => ~can_castle_queenside(pos, them)

\* the kingside rook of White has left h1 and stands on h1 again, the king on e1
CastleRightsOnlyShrinkWitness ==
    /\ last_op = "make_move"
    /\ ~pos.panicked
    /\ WHITE_KINGSIDE \in mk_revoked
    /\ piece_at(pos, H1) = Piece(Rook, White)
    /\ piece_at(pos, E1) = Piece(King, White)
    /\ ~can_castle_kingside(pos, White)

\* C17: after make_move(m) the en-passant square is set if and only if m is a
\* double pawn push, and then it is the square the pawn passed over; after any
\* other move, the null move included, it is empty
EnPassantOnlyAfterDoublePush ==
    (last_op = "make_move" /\ ~pos.panicked) =>
        pos.en_passant_square =
            (IF is_double_pawn_push(mk_mov)
             THEN (source(mk_mov) + destination(mk_mov)) \div 2
             ELSE NoSquare)

\* a move that is no double pawn push, made while an en-passant square was set
EnPassantOnlyAfterDoublePushWitness ==
    /\ last_op = "make_move"
    /\ ~pos.panicked
    /\ pos2.en_passant_square # NoSquare
    /\ ~is_null(mk_mov)
    /\ ~is_double_pawn_push(mk_mov)
    /\ pos.en_passant_square = NoSquare

\* C18: after make_move(m) the halfmove clock is 0 when m is a capture or moves
\* a pawn and the previous value plus one for any other move, the null move
\* included; the fullmove clock is one more exactly when the side to move
\* becomes White
ClocksAfterMove ==
    (last_op = "make_move" /\ ~pos.panicked) =>
        LET moving_piece == piece_at(pos2, source(mk_mov))
            resets == is_capture(mk_mov) \/ (~is_null(mk_mov) /\ moving_piece.kind = Pawn)
        IN /\ pos.halfmove_clock = (IF resets THEN 0 ELSE pos2.halfmove_clock + 1)
           /\ pos.fullmove_clock = (IF pos.side_to_move = White THEN pos2.fullmove_clock + 1
                                    ELSE pos2.fullmove_clock)

\* C15: when a token of a `position ... moves` command is no legal move in the
\* position reached so far, the command reports `invalid move: <token>`, does
\* not panic, and leaves the position of the main thread as it was
InvalidMoveReported ==
    uci_illegal # << >> =>
        /\ ~uci_panicked
        /\ uci_output = << "invalid position command: ", "invalid move: ", uci_illegal >>
        /\ uci_position = uci_before

\* C22: within one alpha_beta node a legal hash move that was searched first is
\* not searched again in the move loop
HashMoveSearchedOnce ==
    \A i \in 1..Len(ab_stack) :
        (ab_stack[i].fn = "alpha_beta" /\ ab_stack[i].pc = "loop_ret")
            => Head(ab_stack[i].moves)[1] # ab_stack[i].hash_move

StopWhileIdleForgotten ==
    \A w \in Workers : ~w_began_stopped[w]

\* C26: the main thread never waits for a worker that is searching: no start()
\* of the Search arm finds the idle_lock held by a worker inside search::search
MainNeverWaitsForSearch ==
    ~(main_pc = "start" /\ idle_lock[main_i] /\ w_pc[main_i] = "searching")

\* C27: a woken worker searches the SearchRequest and the position that were
\* current when the main thread handled the Search request that woke it
WorkerSearchesRequest ==
    \A w \in Workers :
        (w_pc[w] \in {"searching", "print", "reset_stop", "set_idle"} /\ w_woke[w] # 0) =>
            /\ w_read[w].search = w_woke[w]
            /\ w_read[w].position = handled[w_woke[w]]

\* C30: no worker thread calls threads::get before initialize() has stored the
\* pool: no worker panics with `get called before initialize`
NoGetBeforeInitialize ==
    \A w \in Workers : wt_pc[w] # "panicked"

\* C24: with several workers recording at once, the insert of record_all never
\* replaces a PV or Cut entry that is in the table for the position at that moment
AllNeverReplacesPvOrCut ==
    (tlast.op = "insert_all" /\ tlast.key \in DOMAIN tbefore) => is_all(tbefore[tlast.key])

\* C28: the stand_pat that a quiesce call compares with alpha and beta is evaluate(pos)
\* when White is to move in pos and its negation when Black is to move
side_relative(n) == IF AbSide(n) = Black THEN neg(ab_eval[n]) ELSE ab_eval[n]
StandPatOfSideToMove ==
    \A i \in 1..Len(ab_stand_pat) :
        ab_stand_pat[i].value = side_relative(ab_stand_pat[i].node)

\* C29: for every canonical six-field FEN text s that from_fen accepts,
\* as_fen(from_fen(s)) = s, the texts with "-" as castling field included
FenTextRoundTripEqual ==
    (fen_src # << >> /\ fen_err = "") => fen_text = fen_src

\* C23: search() returns the move and score of the deepest iteration that ended with
\* no termination condition fired; an iteration cut short never changes the best move or
\* score; the depths are attempted in the order 1, 2, ... and never beyond options.depth
finished_iters == {i \in 1..Len(iters) : ~iters[i].cut}
deepest_finished ==
    IF finished_iters = {} THEN [best_move |-> Move_null, best_score |-> mated_in(0)]
    ELSE iters[CHOOSE i \in finished_iters : \A j \in finished_iters : j <= i].returned[1]
====
